---- MODULE Spec2Model ----
(***************************************************************************)
(* Model of the Notion-export utilities: html_bundle_extractor.py          *)
(* (HTMLBundleExtractor) and apply_theme.py (WebsiteThemeApplicator).      *)
(*                                                                         *)
(* Text is a sequence of one-character strings.  A path is text relative   *)
(* to the directory being processed (to the working directory where the    *)
(* theme applicator makes a project), with "/" between its components and  *)
(* the empty text for the directory itself (pathlib on a POSIX host).      *)
(***************************************************************************)
EXTENDS Integers, Sequences, FiniteSets, TLC

VARIABLES
    \* ---- clean_filename called on its own
    cf_pc,            \* "idle" | "input" | "done"
    filename,         \* the argument of clean_filename
    cleaned,          \* its return value
    \* ---- a layout converter of WebsiteThemeApplicator called on its own
    lay_pc,           \* "idle" | "input" | "done"
    lay_kind,         \* the converter: "table" | "flex" | "percentage" | "float"
    lay_content,      \* its argument content
    converted,        \* the return value
    \* ---- HTMLBundleExtractor: the arguments of the run
    mode,             \* "archive" | "reprocess" | "gui" (no argument at all)
    cleanup_zips,     \* self.cleanup_zips
    archive,          \* [state, entries]: the archive, or the directory to reprocess
    outdir_exists,    \* output_dir exists when process_archive starts
    \* ---- HTMLBundleExtractor: the state of the run
    x_pc,             \* the statement the run is at
    tree,             \* the output (or reprocessed) directory
    html_files,       \* html_files of process_archive / reprocess_extracted_directory
    main_html,        \* main_html
    heic_files,       \* convert_all_heic_files: heic_files
    h_i,              \*   index of the next one
    converted_count,  \*   converted_count
    failed_count,     \*   failed_count
    conversions,      \*   conversions
    succeeded,        \*   the files convert_heic_to_png returned True for
    update_calls,     \*   the arguments of each call of update_heic_references_in_html
    heic_ret,         \*   the return value
    all_files,        \* clean_and_move_files: the files still to visit
    moves_made,       \*   moves_made
    filename_mapping, \*   self.filename_mapping
    cleaned_count,    \*   the return value
    f_i,              \* index of the next file whose links are fixed
    fixed_count,      \* fixed_count
    caller,           \* "process" | "reprocess": who runs the shared steps
    success,          \* what process_archive / reprocess_extracted_directory returned
    ret,              \* what run returned
    raised,           \* an exception left run
    frames,           \* the calls of extract_nested_archives in progress, outermost first
    \* ---- WebsiteThemeApplicator: the arguments of the run
    t_mode,           \* "given" | "gui": directory_path given, or asked for
    directory_path,   \* directory_path, seen from the working directory
    create_project_structure, \* create_project_structure (not --in-place)
    dir_exists,       \* directory_path exists
    create_backups,   \* create_backups (not --no-backup)
    original_tree,    \* the directory as it was when the run started
    \* ---- WebsiteThemeApplicator: the state of the run
    t_pc,             \* the statement the run is at
    t_tree,           \* the directory
    t_html_files,     \* html_files of process_directory
    backup_dir,       \* backup_dir, None when there is none
    subpage_mapping,  \* subpage_mapping: file -> [target_filename, clean_name]
    p_i,              \* index of the next file to process
    processed_count,  \* processed_count
    t_failed_count,   \* failed_count of process_directory
    t_success,        \* what process_directory returned
    t_ret,            \* what run returned
    project_dir,      \* project_dir, None before create_project_structure
    asset_walk        \* copy_assets: the directories rglob has listed and not yet
                      \*   entered, one set for each directory it is inside

cf_vars == <<cf_pc, filename, cleaned>>

lay_in_vars == <<lay_kind, lay_content>>

lay_vars == <<lay_pc, lay_in_vars, converted>>

in_vars == <<mode, cleanup_zips, archive, outdir_exists>>

heic_vars == <<heic_files, h_i, converted_count, failed_count, conversions,
               succeeded, update_calls, heic_ret>>

clean_vars == <<all_files, moves_made, filename_mapping, cleaned_count>>

fix_vars == <<f_i, fixed_count>>

run_vars == <<caller, success, ret, raised>>

nest_vars == <<frames>>

x_vars == <<x_pc, in_vars, nest_vars, tree, html_files, main_html, heic_vars, clean_vars,
            fix_vars, run_vars>>

t_in_vars == <<t_mode, directory_path, create_project_structure, dir_exists,
              create_backups, original_tree>>

pr_vars == <<project_dir, asset_walk>>

t_vars == <<t_in_vars, t_pc, t_tree, t_html_files, backup_dir, subpage_mapping, p_i,
            processed_count, t_failed_count, t_success, t_ret, pr_vars>>

vars == <<cf_vars, lay_vars, x_vars, t_vars>>

(***************************************************************************)
(* Characters and character classes (Python re on str)                     *)
(***************************************************************************)
DigitSeq == <<"0", "1", "2", "3", "4", "5", "6", "7", "8", "9">>

LowerSeq == <<"a", "b", "c", "d", "e", "f", "g", "h", "i", "j", "k", "l", "m",
              "n", "o", "p", "q", "r", "s", "t", "u", "v", "w", "x", "y", "z">>

UpperSeq == <<"A", "B", "C", "D", "E", "F", "G", "H", "I", "J", "K", "L", "M",
              "N", "O", "P", "Q", "R", "S", "T", "U", "V", "W", "X", "Y", "Z">>

\* the printable ASCII characters the model uses, in code-point order
AsciiSeq == <<" ", "!", "\"", "#", "%", "&", "*", "-", ".", "/">> \o DigitSeq
            \o <<":", "<", ">", "?">> \o UpperSeq \o <<"_">> \o LowerSeq \o <<"|">>

Range(s) == {s[i] : i \in 1..Len(s)}

\* the element of a set of one element: in  TheOne({F(v) : v \in {e}})  the
\* value of e is computed before F is applied to it, as a statement of the
\* code computes a value before the next statement uses it
TheOne(S) == CHOOSE x \in S : TRUE

Ord(c) == CHOOSE i \in 1..Len(AsciiSeq) : AsciiSeq[i] = c

IsHex(c) == c \in Range(DigitSeq) \cup {"a", "b", "c", "d", "e", "f"}

IsSpace(c) == c = " "

IsWord(c) == c \in Range(DigitSeq) \cup Range(LowerSeq) \cup Range(UpperSeq) \cup {"_"}

LowerChar(c) ==
    IF c \in Range(UpperSeq)
    THEN LowerSeq[CHOOSE i \in 1..Len(UpperSeq) : UpperSeq[i] = c]
    ELSE c

Lower(s) == [i \in 1..Len(s) |-> LowerChar(s[i])]

(***************************************************************************)
(* Text helpers                                                            *)
(***************************************************************************)
\* min() and max() of a set of numbers
Min(S) == CHOOSE x \in S : \A y \in S : x <= y

Max(S) == CHOOSE x \in S : \A y \in S : y <= x

\* s[i..j], empty when j < i
Slice(s, i, j) == IF j < i THEN <<>> ELSE SubSeq(s, i, j)

\* pat occurs in s starting at index i
MatchAt(s, i, pat) ==
    /\ i >= 1
    /\ i + Len(pat) - 1 <= Len(s)
    /\ \A k \in 1..Len(pat) : s[i + k - 1] = pat[k]

StartsWith(s, pat) == MatchAt(s, 1, pat)

EndsWith(s, pat) == Len(pat) <= Len(s) /\ MatchAt(s, Len(s) - Len(pat) + 1, pat)

Contains(s, pat) == \E i \in 1..(Len(s) - Len(pat) + 1) : MatchAt(s, i, pat)

\* s[i..i+n-1] are all hex digits
HexRunAt(s, i, n) ==
    /\ i >= 1
    /\ i + n - 1 <= Len(s)
    /\ \A k \in i..(i + n - 1) : IsHex(s[k])

\* str.replace(pat, rep) and re.sub of a literal: leftmost, non-overlapping
RECURSIVE ReplaceFrom(_, _, _, _)
ReplaceFrom(s, i, pat, rep) ==
    LET hits == {k \in i..Len(s) : MatchAt(s, k, pat)}
    IN  IF hits = {} THEN Slice(s, i, Len(s))
        ELSE Slice(s, i, Min(hits) - 1) \o rep
             \o ReplaceFrom(s, Min(hits) + Len(pat), pat, rep)

ReplaceAll(s, pat, rep) == IF Len(pat) = 0 THEN s ELSE ReplaceFrom(s, 1, pat, rep)

\* str.strip(chars)
LStrip(s, chars) ==
    LET keep == {i \in 1..Len(s) : s[i] \notin chars}
    IN  IF keep = {} THEN <<>> ELSE Slice(s, Min(keep), Len(s))

RStrip(s, chars) ==
    LET keep == {i \in 1..Len(s) : s[i] \notin chars}
    IN  IF keep = {} THEN <<>> ELSE Slice(s, 1, Max(keep))

Strip(s, chars) == RStrip(LStrip(s, chars), chars)

\* index of the last occurrence of c in s, 0 when there is none (str.rfind + 1)
RFind(s, c) ==
    IF \E i \in 1..Len(s) : s[i] = c
    THEN CHOOSE i \in 1..Len(s) : s[i] = c /\ \A j \in (i + 1)..Len(s) : s[j] # c
    ELSE 0

\* index of the first occurrence of c in s at or after i, 0 when there is none
FindFrom(s, c, i) ==
    IF \E k \in i..Len(s) : s[k] = c
    THEN CHOOSE k \in i..Len(s) : s[k] = c /\ \A j \in i..(k - 1) : s[j] # c
    ELSE 0

\* str.split(sep) for a one-character separator: a sequence of texts
RECURSIVE SplitFrom(_, _, _)
SplitFrom(s, i, sep) ==
    LET k == FindFrom(s, sep, i)
    IN  IF k = 0 THEN <<Slice(s, i, Len(s))>>
        ELSE <<Slice(s, i, k - 1)>> \o SplitFrom(s, k + 1, sep)

Split(s, sep) == SplitFrom(s, 1, sep)

\* sep.join(parts)
RECURSIVE Join(_, _)
Join(parts, sep) ==
    IF Len(parts) = 0 THEN <<>>
    ELSE IF Len(parts) = 1 THEN parts[1]
    ELSE parts[1] \o sep \o Join(Tail(parts), sep)

\* re.sub(r'\s+', ' ', s)
\* every run of white space becomes one space: the first character of a
\* run stays, as a space
CollapseSpace(s) ==
    LET kept == SelectSeq([i \in 1..Len(s) |-> i],
                          LAMBDA i : ~IsSpace(s[i]) \/ i = 1 \/ ~IsSpace(s[i - 1]))
    IN  [j \in 1..Len(kept) |-> IF IsSpace(s[kept[j]]) THEN " " ELSE s[kept[j]]]

\* re.sub(r'[...]', '', s) for a character class
RemoveChars(s, chars) == SelectSeq(s, LAMBDA c : c \notin chars)

(***************************************************************************)
(* pathlib.PurePosixPath.name / .suffix / .stem of a single component      *)
(***************************************************************************)
\* Path(part).name: "" for "" and ".", the part itself otherwise
PartName(part) == IF part = <<".">> THEN <<>> ELSE part

Suffix(name) ==
    LET i == RFind(name, ".")
    IN  IF 1 < i /\ i < Len(name) THEN Slice(name, i, Len(name)) ELSE <<>>

Stem(name) ==
    LET i == RFind(name, ".")
    IN  IF 1 < i /\ i < Len(name) THEN Slice(name, 1, i - 1) ELSE name

(***************************************************************************)
(* HTMLBundleExtractor.clean_filename                                      *)
(***************************************************************************)
UuidHexLen == 32

MaxStemLen == 50

\* the literal texts of the patterns
TxtExportBlock == <<"E", "x", "p", "o", "r", "t", "B", "l", "o", "c", "k", "-">>

TxtShared == <<"/", "S", "h", "a", "r", "e", "d", "/">>

TxtPrivateShared == <<"/", "P", "r", "i", "v", "a", "t", "e", " ", "&", " ",
                      "S", "h", "a", "r", "e", "d", "/">>

TxtUntitled == <<"u", "n", "t", "i", "t", "l", "e", "d">>

SpecialChars == {"<", ">", ":", "\"", "|", "?", "*"}

\* [a-f0-9]{8}-[a-f0-9]{4}-[a-f0-9]{4}-[a-f0-9]{4}-[a-f0-9]{12} at index i
DashedUuidLen == 36

DashedUuidAt(s, i) ==
    /\ i >= 1
    /\ i + DashedUuidLen - 1 <= Len(s)
    /\ HexRunAt(s, i, 8) /\ s[i + 8] = "-"
    /\ HexRunAt(s, i + 9, 4) /\ s[i + 13] = "-"
    /\ HexRunAt(s, i + 14, 4) /\ s[i + 18] = "-"
    /\ HexRunAt(s, i + 19, 4) /\ s[i + 23] = "-"
    /\ HexRunAt(s, i + 24, 12)

\* re.sub(dashed uuid, '', s)
RECURSIVE RemoveDashedFrom(_, _)
RemoveDashedFrom(s, i) ==
    LET hits == {k \in i..Len(s) : DashedUuidAt(s, k)}
    IN  IF hits = {} THEN Slice(s, i, Len(s))
        ELSE Slice(s, i, Min(hits) - 1) \o RemoveDashedFrom(s, Min(hits) + DashedUuidLen)

RemoveDashedUuid(s) == RemoveDashedFrom(s, 1)

\* re.sub(r'[a-f0-9]{32}', '', s)
RECURSIVE RemoveHexFrom(_, _)
RemoveHexFrom(s, i) ==
    LET hits == {k \in i..Len(s) : HexRunAt(s, k, UuidHexLen)}
    IN  IF hits = {} THEN Slice(s, i, Len(s))
        ELSE Slice(s, i, Min(hits) - 1) \o RemoveHexFrom(s, Min(hits) + UuidHexLen)

RemoveHexUuid(s) == RemoveHexFrom(s, 1)

\* re.sub(r'[a-f0-9]{32}$', '', s)
RemoveHexTail(s) ==
    IF HexRunAt(s, Len(s) - UuidHexLen + 1, UuidHexLen)
    THEN Slice(s, 1, Len(s) - UuidHexLen) ELSE s

\* re.sub(r'\s+[a-f0-9]{32}$', '', s)
RemoveSpaceHexTail(s) ==
    IF /\ HexRunAt(s, Len(s) - UuidHexLen + 1, UuidHexLen)
       /\ Len(s) > UuidHexLen
       /\ IsSpace(s[Len(s) - UuidHexLen])
    THEN RStrip(Slice(s, 1, Len(s) - UuidHexLen), {" "}) ELSE s

\* re.sub(r'^ExportBlock-[^/]*/', '', s)
RemoveExportBlockPrefix(s) ==
    LET k == FindFrom(s, "/", Len(TxtExportBlock) + 1)
    IN  IF StartsWith(s, TxtExportBlock) /\ k # 0
        THEN Slice(s, k + 1, Len(s)) ELSE s

\* the stem cut to 50 characters (lines 507-508)
limit_stem(name_without_ext) ==
    IF Len(name_without_ext) > MaxStemLen
    THEN Slice(name_without_ext, 1, MaxStemLen) ELSE name_without_ext

\* the characters re.sub(r'[<>:"|?*]', '', part) drops (line 497)
drop_special(part) == RemoveChars(part, SpecialChars)

\* lines 502-516 of the loop: the extension is kept, the stem cut
name_and_ext(part) ==
    LET name == PartName(part)
        extension == Lower(Suffix(name))
        name_without_ext == limit_stem(Stem(name))
    IN  Strip(name_without_ext \o extension, {" ", ".", "-"})

\* the body of the loop over path_parts, lines 491-516
clean_part(part) ==
    LET p1 == RemoveSpaceHexTail(part)
        p2 == RemoveHexTail(p1)
        p3 == RemoveDashedUuid(p2)
    IN  TheOne({TheOne({name_and_ext(p5) : p5 \in {CollapseSpace(p4)}}) :
                    p4 \in {drop_special(p3)}})

clean_parts(path_parts) ==
    SelectSeq([i \in 1..Len(path_parts) |-> clean_part(path_parts[i])],
              LAMBDA p : Len(p) > 0)

\* lines 484-531: the parts of the path are cleaned and joined again
clean_path_parts(text) ==
    LET path_parts == SelectSeq(Split(text, "/"), LAMBDA p : Len(p) > 0)
        result == TheOne({Strip(Join(parts, <<"/">>), {"/"}) :
                            parts \in {clean_parts(path_parts)}})
    IN  IF Len(result) = 0 THEN TxtUntitled ELSE result

\* lines 479-481: the wrappers of the export
remove_wrappers(text) ==
    LET c4 == RemoveExportBlockPrefix(text)
        c5 == ReplaceAll(c4, TxtPrivateShared, <<"/">>)
    IN  ReplaceAll(c5, TxtShared, <<"/">>)

\* lines 472-476: the identifiers of the export
remove_ids(fname) ==
    LET c1 == RemoveSpaceHexTail(fname)
        c2 == RemoveDashedUuid(c1)
    IN  RemoveHexUuid(c2)

clean_filename(fname) ==
    TheOne({TheOne({clean_path_parts(c6) : c6 \in {remove_wrappers(c3)}}) :
                c3 \in {remove_ids(fname)}})
(***************************************************************************)
(* Sample texts the inputs are built from                                  *)
(***************************************************************************)
HexSample == <<"0", "1", "2", "3", "4", "5", "6", "7", "8", "9",
               "a", "b", "c", "d", "e", "f">>

\* n hex digits
HexText(n) == [i \in 1..n |-> HexSample[((i - 1) % 16) + 1]]

\* a 32-digit Notion id and its dashed form
Uuid == HexText(UuidHexLen)

DashedUuid ==
    Slice(Uuid, 1, 8) \o <<"-">> \o Slice(Uuid, 9, 12) \o <<"-">>
    \o Slice(Uuid, 13, 16) \o <<"-">> \o Slice(Uuid, 17, 20) \o <<"-">>
    \o Slice(Uuid, 21, 32)

\* a name one character longer than the stem limit
LongText == [i \in 1..(MaxStemLen + 1) |-> "x"]

(***************************************************************************)
(* Paths and the file tree                                                 *)
(*                                                                         *)
(* A tree is a record [fs, dirs]: fs maps the path of every file to its    *)
(* content, dirs is the set of directories below the root.  The content    *)
(* of a file is a record                                                   *)
(*   id      what the file holds, kept when the file is moved or copied    *)
(*   refs    the attributes [a, v] in it: a is "href" or "src", v the value *)
(*   pad     the number of its other characters                            *)
(*   entries the members <<name, content>> of a ZIP archive, in order      *)
(*   ok      whether zipfile can open it                                   *)
(***************************************************************************)

\* directory / rel
PathJoin(dir, rel) == IF Len(dir) = 0 THEN rel ELSE dir \o <<"/">> \o rel

\* Path.parent and Path.name of a path
Parent(p) == Slice(p, 1, RFind(p, "/") - 1)

Name(p) == Slice(p, RFind(p, "/") + 1, Len(p))

\* the directories above p, below the root
Ancestors(p) == {Slice(p, 1, i - 1) : i \in {k \in 1..Len(p) : p[k] = "/"}}

\* p lies somewhere below directory d
IsUnder(p, d) == Len(d) = 0 \/ StartsWith(p, d \o <<"/">>)

\* str < str and Path < Path (component by component)
TextLess(a, b) ==
    LET n == IF Len(a) < Len(b) THEN Len(a) ELSE Len(b)
        d == {i \in 1..n : a[i] # b[i]}
    IN  IF d = {} THEN Len(a) < Len(b) ELSE Ord(a[Min(d)]) < Ord(b[Min(d)])

PathLess(p, q) ==
    LET a == Split(p, "/")
        b == Split(q, "/")
        n == IF Len(a) < Len(b) THEN Len(a) ELSE Len(b)
        d == {i \in 1..n : a[i] # b[i]}
    IN  IF d = {} THEN Len(a) < Len(b) ELSE TextLess(a[Min(d)], b[Min(d)])

\* sorted(paths)
RECURSIVE SortPaths(_)
SortPaths(S) ==
    IF S = {} THEN <<>>
    ELSE LET m == CHOOSE x \in S : \A y \in S \ {x} : PathLess(x, y)
         IN  <<m>> \o SortPaths(S \ {m})

\* Path.exists()
Exists(T, p) == p \in DOMAIN T.fs \/ p \in T.dirs \/ Len(p) = 0

\* writing, and removing, files
Put(fs, p, c) == [q \in DOMAIN fs \cup {p} |-> IF q = p THEN c ELSE fs[q]]

Del(fs, P) == [q \in DOMAIN fs \ P |-> fs[q]]

EmptyTree == [fs |-> [q \in {} |-> 0], dirs |-> {}]

\* the files under directory d whose name ends with one of the suffixes
\* (Path.rglob('*' + suffix), matching case as a POSIX host does)
RGlob(T, d, suffixes) ==
    {p \in DOMAIN T.fs :
        IsUnder(p, d) /\ \E s \in suffixes : EndsWith(Name(p), s)}

\* Path.stat().st_size of a file with content c: an attribute  a="v"  takes
\* the characters of a and v and four more
RECURSIVE RefsLen(_)
RefsLen(refs) ==
    IF Len(refs) = 0 THEN 0
    ELSE (IF Head(refs).a = "href" THEN 8 ELSE 7) + Len(Head(refs).v) + RefsLen(Tail(refs))

st_size(c) == c.pad + RefsLen(c.refs)

\* zipfile.ZipFile.extractall(dir): members in order, parents created
RECURSIVE ExtractAll(_, _, _)
ExtractAll(T, dir, entries) ==
    IF Len(entries) = 0 THEN T
    ELSE LET p == PathJoin(dir, entries[1][1])
         IN  ExtractAll([fs |-> Put(T.fs, p, entries[1][2]),
                         dirs |-> T.dirs \cup Ancestors(p)],
                        dir, Tail(entries))

(***************************************************************************)
(* URL quoting, relative paths, numbers as text                            *)
(***************************************************************************)
\* the characters urllib.parse.quote escapes, with their two hex digits
QuoteTable ==
    << <<" ", "2", "0">>, <<"!", "2", "1">>, <<"\"", "2", "2">>, <<"#", "2", "3">>,
       <<"%", "2", "5">>, <<"&", "2", "6">>, <<"*", "2", "A">>, <<":", "3", "A">>,
       <<"<", "3", "C">>, <<">", "3", "E">>, <<"?", "3", "F">>, <<"|", "7", "C">> >>

\* the text urllib.parse.quote puts for character c
QuoteChar(c) ==
    LET hit == {i \in 1..Len(QuoteTable) : QuoteTable[i][1] = c}
    IN  IF hit = {} THEN <<c>>
        ELSE <<"%", QuoteTable[Min(hit)][2], QuoteTable[Min(hit)][3]>>

\* urllib.parse.quote(s): the texts of the characters, one after the other
Quote(s) ==
    LET start(i) == i + 2 * Cardinality({k \in 1..(i - 1) : Len(QuoteChar(s[k])) = 3})
        total == start(Len(s) + 1) - 1
    IN  [j \in 1..total |->
            LET i == CHOOSE k \in 1..Len(s) : start(k) <= j /\ j < start(k + 1)
            IN  QuoteChar(s[i])[j - start(i) + 1]]

\* urllib.parse.unquote(s) for the escapes of the characters above
\* (hex digits in either case); other %XX sequences stay as they are.
\* No escape starts inside another: an escape's second and third
\* characters are hex digits
UnquoteAt(s, i) ==
    IF s[i] = "%" /\ i + 2 <= Len(s)
    THEN {k \in 1..Len(QuoteTable) :
            /\ QuoteTable[k][2] = s[i + 1]
            /\ LowerChar(QuoteTable[k][3]) = LowerChar(s[i + 2])}
    ELSE {}

Unquote(s) ==
    LET escapes == {i \in 1..Len(s) : UnquoteAt(s, i) # {}}
        kept == SelectSeq([i \in 1..Len(s) |-> i],
                          LAMBDA i : (i - 1) \notin escapes /\ (i - 2) \notin escapes)
    IN  [j \in 1..Len(kept) |->
            IF kept[j] \in escapes
            THEN QuoteTable[Min(UnquoteAt(s, kept[j]))][1]
            ELSE s[kept[j]]]

\* os.path.relpath(target, start) for paths below the same root, with "/"
RelPath(target, start) ==
    LET t == SelectSeq(Split(target, "/"), LAMBDA c : Len(c) > 0)
        d == SelectSeq(Split(start, "/"), LAMBDA c : Len(c) > 0)
        n == IF Len(t) < Len(d) THEN Len(t) ELSE Len(d)
        diff == {i \in 1..n : t[i] # d[i]}
        k == IF diff = {} THEN n ELSE Min(diff) - 1
        ups == [i \in 1..(Len(d) - k) |-> <<".", ".">>]
        rel == ups \o Slice(t, k + 1, Len(t))
    IN  IF Len(rel) = 0 THEN <<".">> ELSE Join(rel, <<"/">>)

\* Path(text).name for any text: the last component that is not "" or "."
PathNameOf(s) ==
    LET parts == SelectSeq(Split(s, "/"), LAMBDA c : Len(c) > 0 /\ c # <<".">>)
    IN  IF Len(parts) = 0 THEN <<>> ELSE parts[Len(parts)]

\* str(n) for n >= 0
RECURSIVE IntToText(_)
IntToText(n) ==
    IF n < 10 THEN <<DigitSeq[n + 1]>>
    ELSE IntToText(n \div 10) \o <<DigitSeq[(n % 10) + 1]>>

\* Path.with_suffix(suffix)
WithSuffix(p, suffix) == PathJoin(Parent(p), Stem(Name(p)) \o suffix)

(***************************************************************************)
(* HTMLBundleExtractor: archive extraction                                 *)
(***************************************************************************)
MaxNestLevel == 5

TxtZip == <<".", "z", "i", "p">>

\* extract_nested_archives(directory, level) on tree T; the ZIP files found
\* are taken in sorted order (each one only writes below its own new
\* directory, so the order of the listing does not change the result)
RECURSIVE extract_nested_archives(_, _, _, _)
RECURSIVE extract_zip_files(_, _, _, _)
extract_nested_archives(T, directory, level, cleanup) ==
    extract_zip_files(T, SortPaths(RGlob(T, directory, {TxtZip})), level, cleanup)

extract_zip_files(T, zip_files, level, cleanup) ==
    IF Len(zip_files) = 0 THEN T
    ELSE
      LET zip_file == zip_files[1]
          extract_dir == PathJoin(Parent(zip_file), Stem(Name(zip_file)))
          made == [fs |-> T.fs, dirs |-> T.dirs \cup {extract_dir}]
          unpacked == ExtractAll(made, extract_dir, T.fs[zip_file].entries)
          nested == IF level < MaxNestLevel
                    THEN extract_nested_archives(unpacked, extract_dir, level + 1, cleanup)
                    ELSE unpacked
          after == IF Exists(T, extract_dir) THEN T
                   ELSE IF ~T.fs[zip_file].ok THEN made
                   ELSE IF cleanup
                        THEN [fs |-> Del(nested.fs, {zip_file}), dirs |-> nested.dirs]
                        ELSE nested
      IN  extract_zip_files(after, Tail(zip_files), level, cleanup)

\* cleanup_all_zip_files(directory)
cleanup_all_zip_files(T) ==
    [fs |-> Del(T.fs, RGlob(T, <<>>, {TxtZip})), dirs |-> T.dirs]

\* HTMLBundleExtractor.find_html_files(directory)
HtmlSuffixes == {<<".", "h", "t", "m", "l">>, <<".", "h", "t", "m">>, <<".", "H", "T", "M", "L">>, <<".", "H", "T", "M">>}

find_html_files(T) == SortPaths(RGlob(T, <<>>, HtmlSuffixes))

\* a choice that ignores the sizes: the first file of the list
FirstListed(T, files) == files[1]

\* find_main_html_file(html_files, output_dir); files are in tree T.
\* max(files, key=size) is the first file of the largest size.
MaxBySize(T, files) ==
    LET best == {i \in 1..Len(files) :
                    \A j \in 1..Len(files) : st_size(T.fs[files[j]]) <= st_size(T.fs[files[i]])}
    IN  files[Min(best)]

None == <<"N", "o", "n", "e", "/">>

find_main_html_file(T, files) ==
    LET root_files == SelectSeq(files, LAMBDA f : Len(Parent(f)) = 0)
    IN  IF Len(files) = 0 THEN None
        ELSE IF Len(root_files) > 0 THEN MaxBySize(T, root_files)
        ELSE MaxBySize(T, files)

(***************************************************************************)
(* HTMLBundleExtractor: HEIC references and internal links                 *)
(***************************************************************************)
HeicSuffixes == <<<<".", "h", "e", "i", "c">>, <<".", "H", "E", "I", "C">>, <<".", "h", "e", "i", "f">>, <<".", "H", "E", "I", "F">>>>

TxtPng == <<".", "p", "n", "g">>

\* patterns_to_replace of update_heic_references_in_html for one conversion,
\* seen from an HTML file in directory html_parent
heic_patterns(heic_file, html_parent) ==
    LET name == Name(heic_file)
        heic_rel == RelPath(heic_file, html_parent)
        exts == SelectSeq(HeicSuffixes, LAMBDA e : Lower(Suffix(name)) = Lower(e))
        byExt == [i \in 1..(2 * Len(exts)) |->
                    IF i % 2 = 1 THEN Stem(name) \o exts[(i + 1) \div 2]
                    ELSE Quote(Stem(name) \o exts[i \div 2])]
    IN  <<name, heic_rel, heic_rel, Quote(name), Quote(heic_rel), Quote(heic_rel)>>
        \o byExt

\* content.replace(pattern, png_name) for every pattern in turn; content is
\* a value of its own after every replacement (the bound t)
RECURSIVE replace_patterns(_, _, _)
replace_patterns(text, patterns, png_name) ==
    IF Len(patterns) = 0 THEN text
    ELSE TheOne({replace_patterns(t[1], t[2], png_name) :
                    t \in {<<ReplaceAll(text, patterns[1], png_name), Tail(patterns)>>}})

\* the text of one attribute value after all conversions were applied
RECURSIVE replace_conversions(_, _, _)
replace_conversions(text, pairs, html_parent) ==
    IF Len(pairs) = 0 THEN text
    ELSE TheOne({replace_conversions(t[1], t[2], html_parent) :
                    t \in {<<replace_patterns(text, heic_patterns(pairs[1][1], html_parent),
                                              Name(pairs[1][2])),
                             Tail(pairs)>>}})

\* update_heic_references_in_html(directory, conversions)
update_heic_references_in_html(T, pairs) ==
    [fs |-> [p \in DOMAIN T.fs |->
                IF \E s \in HtmlSuffixes : EndsWith(Name(p), s)
                THEN [T.fs[p] EXCEPT !.refs =
                        [i \in 1..Len(@) |->
                            [@[i] EXCEPT !.v = replace_conversions(@, pairs, Parent(p))]]]
                ELSE T.fs[p]],
     dirs |-> T.dirs]

TxtNotion == <<"n", "o", "t", "i", "o", "n", ".", "s", "o">>

\* the first 32 hex digits in a file name, <<>> when there are none (line 832)
uuid_of_name(name) ==
    LET at == {i \in 1..Len(name) : HexRunAt(name, i, UuidHexLen)}
    IN  IF at = {} THEN <<>> ELSE Slice(name, Min(at), Min(at) + UuidHexLen - 1)

\* the id in a Notion URL without its dashes, <<>> when there is none (856-858)
uuid_of_href(href) ==
    LET at == {i \in 1..Len(href) : HexRunAt(href, i, UuidHexLen) \/ DashedUuidAt(href, i)}
        i == Min(at)
    IN  IF at = {} THEN <<>>
        ELSE IF HexRunAt(href, i, UuidHexLen) THEN Slice(href, i, i + UuidHexLen - 1)
        ELSE RemoveChars(Slice(href, i, i + DashedUuidLen - 1), {"-"})

\* uuid_to_file[uuid]: the last file whose name carries the id, else None
uuid_to_file(files, uuid) ==
    LET at == {i \in 1..Len(files) : uuid_of_name(Name(files[i])) = uuid}
    IN  IF at = {} THEN None ELSE files[CHOOSE i \in at : \A j \in at : j <= i]

\* the keys of filename_to_file in insertion order: name, then stem, of each file
filename_keys(files) ==
    LET all == [i \in 1..(2 * Len(files)) |->
                  IF i % 2 = 1 THEN Name(files[(i + 1) \div 2])
                  ELSE Stem(Name(files[i \div 2]))]
        first == {i \in 1..Len(all) : \A j \in 1..(i - 1) : all[j] # all[i]}
    IN  [k \in 1..Cardinality(first) |->
            all[CHOOSE i \in first : Cardinality({j \in first : j < i}) = k - 1]]

\* filename_to_file[key]: the last file with that name or stem
filename_to_file(files, key) ==
    LET at == {i \in 1..Len(files) :
                  Name(files[i]) = key \/ Stem(Name(files[i])) = key}
    IN  files[CHOOSE i \in at : \A j \in at : j <= i]

\* the href values fix_link leaves alone (lines 848-850)
is_external(href) ==
    \/ StartsWith(href, <<"m", "a", "i", "l", "t", "o", ":">>)
    \/ StartsWith(href, <<"#">>)
    \/ /\ StartsWith(href, <<"h", "t", "t", "p", ":", "/", "/">>) \/ StartsWith(href, <<"h", "t", "t", "p", "s", ":", "/", "/">>)
       /\ ~Contains(href, TxtNotion)

\* the file a Notion URL resolves to by its id, None when it does not (853-860)
notion_target(href, files) ==
    IF Contains(href, TxtNotion) /\ uuid_of_href(href) # <<>>
    THEN uuid_to_file(files, uuid_of_href(href)) ELSE None

\* the file a local href resolves to, None when there is none (871-887)
local_target(href, files) ==
    LET decoded == Unquote(href)
        keys == filename_keys(files)
        href_base == Stem(PathNameOf(decoded))
        part == {i \in 1..Len(keys) :
                    Contains(keys[i], href_base) \/ Contains(href_base, keys[i])}
    IN  IF href \in Range(keys) THEN filename_to_file(files, href)
        ELSE IF decoded \in Range(keys) THEN filename_to_file(files, decoded)
        ELSE IF part # {} THEN filename_to_file(files, keys[Min(part)])
        ELSE None

\* fix_link: the new value of href="..." in html_file
fix_link(href, html_file, files) ==
    LET target == IF notion_target(href, files) # None
                  THEN notion_target(href, files) ELSE local_target(href, files)
    IN  IF is_external(href) \/ target = None THEN href
        ELSE RelPath(target, Parent(html_file))

\* the content fix_internal_links leaves in html_file
fix_internal_links(c, html_file, files) ==
    [c EXCEPT !.refs =
        [i \in 1..Len(@) |->
            IF @[i].a = "href"
            THEN [@[i] EXCEPT !.v = fix_link(@, html_file, files)] ELSE @[i]]]

(***************************************************************************)
(* HTMLBundleExtractor.run, process_archive, reprocess_extracted_directory *)
(***************************************************************************)
TxtIndexHtml == <<"i", "n", "d", "e", "x", ".", "h", "t", "m", "l">>

\* process_archive / reprocess_extracted_directory returns value v
Return(v) ==
    /\ success' = v
    /\ x_pc' = "return"

\* an exception leaves process_archive / reprocess_extracted_directory
Raise ==
    /\ success' = "exception"
    /\ x_pc' = "return"

\* run, lines 240-250: the mode, and the file dialog of the GUI
RunStart ==
    /\ x_pc = "run"
    /\ \/ /\ mode = "reprocess"
          /\ x_pc' = "reprocess" /\ caller' = "reprocess"
          /\ UNCHANGED <<ret>>
       \/ /\ mode = "archive"
          /\ x_pc' = "process" /\ caller' = "process"
          /\ UNCHANGED <<ret>>
       \/ /\ mode = "gui"
          /\ \E selected \in BOOLEAN :
                IF selected
                THEN x_pc' = "process" /\ caller' = "process" /\ UNCHANGED <<ret>>
                ELSE x_pc' = "done" /\ ret' = 1 /\ UNCHANGED <<caller>>
    /\ UNCHANGED <<cf_vars, lay_vars, t_vars, in_vars, nest_vars, tree, html_files, main_html, heic_vars,
                   clean_vars, fix_vars, success, raised>>

\* process_archive, lines 1163-1180: the archive and the output directory
ProcessArchiveStart ==
    /\ x_pc = "process"
    /\ IF archive.state = "missing"
       THEN Return("False") /\ UNCHANGED tree
       ELSE IF outdir_exists
       THEN \E response \in {"y", "n", "eof"} :
               \/ response = "y" /\ tree' = EmptyTree /\ x_pc' = "extract"
                  /\ UNCHANGED success
               \/ response = "n" /\ Return("False") /\ UNCHANGED tree
               \/ response = "eof" /\ Raise /\ UNCHANGED tree
       ELSE x_pc' = "extract" /\ UNCHANGED <<tree, success>>
    /\ UNCHANGED <<cf_vars, lay_vars, t_vars, in_vars, nest_vars, html_files, main_html, heic_vars,
                   clean_vars, fix_vars, caller, ret, raised>>

\* extract_archive(archive_path, output_dir, level=0), lines 648-676
ExtractArchive ==
    /\ x_pc = "extract"
    /\ CASE archive.state = "notzip" -> Return("False") /\ UNCHANGED tree
         [] archive.state = "badzip" -> Raise /\ UNCHANGED tree
         [] OTHER ->
              /\ tree' = extract_nested_archives(
                            ExtractAll(tree, <<>>, archive.entries), <<>>, 1,
                            cleanup_zips)
              /\ x_pc' = "find"
              /\ UNCHANGED success
    /\ UNCHANGED <<cf_vars, lay_vars, t_vars, in_vars, nest_vars, html_files, main_html, heic_vars,
                   clean_vars, fix_vars, caller, ret, raised>>

\* process_archive, lines 1186-1198
FindHtml ==
    /\ x_pc = "find"
    /\ html_files' = find_html_files(tree)
    /\ IF Len(html_files') = 0 THEN Return("False")
       ELSE x_pc' = "cleanup" /\ UNCHANGED success
    /\ UNCHANGED <<cf_vars, lay_vars, t_vars, in_vars, nest_vars, tree, main_html, heic_vars,
                   clean_vars, fix_vars, caller, ret, raised>>

\* process_archive, lines 1200-1201
CleanupZips ==
    /\ x_pc = "cleanup"
    /\ tree' = cleanup_all_zip_files(tree)
    /\ x_pc' = "heic"
    /\ UNCHANGED <<cf_vars, lay_vars, t_vars, in_vars, nest_vars, html_files, main_html, heic_vars,
                   clean_vars, fix_vars, run_vars>>

\* reprocess_extracted_directory, lines 183-204
ReprocessStart ==
    /\ x_pc = "reprocess"
    /\ IF archive.state = "missing"
       THEN Return("False") /\ UNCHANGED <<tree, html_files>>
       ELSE /\ html_files' = find_html_files(tree)
            /\ IF Len(html_files') = 0
               THEN Return("False") /\ UNCHANGED tree
               ELSE /\ tree' = [tree EXCEPT !.fs = Del(@, {TxtIndexHtml})]
                    /\ x_pc' = "clean"
                    /\ UNCHANGED success
    /\ UNCHANGED <<cf_vars, lay_vars, t_vars, in_vars, nest_vars, main_html, heic_vars,
                   clean_vars, fix_vars, caller, ret, raised>>

(***************************************************************************)
(* convert_all_heic_files                                                  *)
(***************************************************************************)
\* heic_files, lines 66-71: one rglob per pattern
RECURSIVE find_heic_files(_, _)
find_heic_files(T, suffixes) ==
    IF Len(suffixes) = 0 THEN <<>>
    ELSE SortPaths(RGlob(T, <<>>, {suffixes[1]})) \o find_heic_files(T, Tail(suffixes))

\* the PNG image convert_heic_to_png writes from content c
PngOf(c) == [c EXCEPT !.id = <<"png">> \o @]

\* a loop that removes the original whether or not it was converted
heic_turn_removing(T, heic_file, ok, removed) ==
    LET png_file == WithSuffix(heic_file, TxtPng)
        written == IF ok THEN Put(T.fs, png_file, PngOf(T.fs[heic_file])) ELSE T.fs
    IN  [fs |-> IF removed THEN Del(written, {heic_file}) ELSE written,
         dirs |-> T.dirs]

\* the tree after one turn of the loop of lines 85-103: ok is what
\* convert_heic_to_png returned, removed whether unlink worked
heic_turn(T, heic_file, ok, removed) ==
    LET png_file == WithSuffix(heic_file, TxtPng)
        written == Put(T.fs, png_file, PngOf(T.fs[heic_file]))
    IN  IF ok
        THEN [fs |-> IF removed THEN Del(written, {heic_file}) ELSE written,
              dirs |-> T.dirs]
        ELSE T

\* the pairs recorded for the link update after one turn (line 93)
heic_record(pairs, heic_file, ok) ==
    IF ok THEN Append(pairs, <<heic_file, WithSuffix(heic_file, TxtPng)>>) ELSE pairs

ConvertStart ==
    /\ x_pc = "heic"
    /\ heic_files' = find_heic_files(tree, HeicSuffixes)
    /\ h_i' = 1
    /\ converted_count' = 0
    /\ failed_count' = 0
    /\ conversions' = <<>>
    /\ IF Len(heic_files') = 0
       THEN heic_ret' = 0 /\ x_pc' = "clean"
       ELSE x_pc' = "heic_loop" /\ UNCHANGED heic_ret
    /\ UNCHANGED <<cf_vars, lay_vars, t_vars, in_vars, nest_vars, tree, html_files, main_html, succeeded,
                   update_calls, clean_vars, fix_vars, run_vars>>

ConvertOne ==
    /\ x_pc = "heic_loop"
    /\ h_i <= Len(heic_files)
    /\ \E ok \in BOOLEAN, removed \in BOOLEAN :
          /\ ok \/ removed
          /\ tree' = heic_turn(tree, heic_files[h_i], ok, removed)
          /\ conversions' = heic_record(conversions, heic_files[h_i], ok)
          /\ converted_count' = IF ok THEN converted_count + 1 ELSE converted_count
          /\ failed_count' = IF ok THEN failed_count ELSE failed_count + 1
          /\ succeeded' = IF ok THEN succeeded \cup {heic_files[h_i]} ELSE succeeded
    /\ h_i' = h_i + 1
    /\ UNCHANGED <<cf_vars, lay_vars, t_vars, in_vars, nest_vars, x_pc, html_files, main_html, heic_files,
                   update_calls, heic_ret, clean_vars, fix_vars, run_vars>>

\* lines 105-111
ConvertFinish ==
    /\ x_pc = "heic_loop"
    /\ h_i > Len(heic_files)
    /\ IF converted_count > 0
       THEN /\ tree' = update_heic_references_in_html(tree, conversions)
            /\ update_calls' = Append(update_calls, conversions)
       ELSE UNCHANGED <<tree, update_calls>>
    /\ heic_ret' = converted_count
    /\ x_pc' = "clean"
    /\ UNCHANGED <<cf_vars, lay_vars, t_vars, in_vars, nest_vars, html_files, main_html, heic_files, h_i,
                   converted_count, failed_count, conversions, succeeded,
                   clean_vars, fix_vars, run_vars>>

(***************************************************************************)
(* clean_and_move_files                                                    *)
(***************************************************************************)
TxtHtm == <<".", "h", "t", "m">>

\* len(path.parts), up to the parts of the root
Depth(p) == Len(Split(p, "/"))

\* cleaned_path_str, lines 556-560
cleaned_path(original) ==
    LET c == clean_filename(original)
    IN  IF EndsWith(Lower(c), TxtHtm)
        THEN Slice(c, 1, Len(c) - 4) \o <<".", "h", "t", "m", "l">> ELSE c

\* a path that is taken as it is, occupied or not
first_path(T, new_path, base_new_path, file_path, counter) == new_path

\* new_path after the loop of lines 567-574
RECURSIVE unique_path(_, _, _, _, _)
unique_path(T, new_path, base_new_path, file_path, counter) ==
    IF Exists(T, new_path) /\ new_path # file_path
    THEN unique_path(T,
            PathJoin(Parent(base_new_path),
                     Stem(Name(base_new_path)) \o <<"_">> \o IntToText(counter)
                        \o Suffix(Name(base_new_path))),
            base_new_path, file_path, counter + 1)
    ELSE new_path

\* the tree after the file was moved (lines 577-580)
move_file(T, file_path, new_path) ==
    [fs |-> Put(Del(T.fs, {file_path}), new_path, T.fs[file_path]),
     dirs |-> T.dirs \cup Ancestors(new_path)]

\* remove_empty_directories: deepest first, so a directory goes when no
\* file is left anywhere below it
remove_empty_directories(T) ==
    [fs |-> T.fs,
     dirs |-> {d \in T.dirs : \E p \in DOMAIN T.fs : IsUnder(p, d)}]

CleanStart ==
    /\ x_pc = "clean"
    /\ all_files' = DOMAIN tree.fs
    /\ moves_made' = {}
    /\ x_pc' = "clean_loop"
    /\ UNCHANGED <<cf_vars, lay_vars, t_vars, in_vars, nest_vars, tree, html_files, main_html, heic_vars,
                   filename_mapping, cleaned_count, fix_vars, run_vars>>

\* one turn of the loop of lines 549-588; the files come deepest first, in
\* the order of the directory listing among files of the same depth
CleanOne ==
    /\ x_pc = "clean_loop"
    /\ \E file_path \in all_files :
          /\ \A other \in all_files : Depth(other) <= Depth(file_path)
          /\ all_files' = all_files \ {file_path}
          /\ \E cleaned_path_str \in {cleaned_path(file_path)} :
             LET new_path == unique_path(tree, cleaned_path_str, cleaned_path_str,
                                         file_path, 1)
                 blocked == \E a \in Ancestors(new_path) : a \in DOMAIN tree.fs
             IN  IF cleaned_path_str # file_path /\ ~blocked
                 THEN /\ tree' = move_file(tree, file_path, new_path)
                      /\ moves_made' = moves_made \cup {<<file_path, cleaned_path_str>>}
                      /\ filename_mapping' = Put(filename_mapping, file_path, cleaned_path_str)
                 ELSE UNCHANGED <<tree, moves_made, filename_mapping>>
    /\ UNCHANGED <<cf_vars, lay_vars, t_vars, in_vars, nest_vars, x_pc, html_files, main_html, heic_vars,
                   cleaned_count, fix_vars, run_vars>>

\* lines 590-600, and the caller's lines 1216-1219 (212-214)
CleanFinish ==
    /\ x_pc = "clean_loop"
    /\ all_files = {}
    /\ tree' = remove_empty_directories(tree)
    /\ cleaned_count' = Cardinality(moves_made)
    /\ html_files' = IF cleaned_count' > 0 THEN find_html_files(tree') ELSE html_files
    /\ x_pc' = "main"
    /\ UNCHANGED <<cf_vars, lay_vars, t_vars, in_vars, nest_vars, main_html, heic_vars, all_files, moves_made,
                   filename_mapping, fix_vars, run_vars>>

(***************************************************************************)
(* The main file, the links, and the end of the run                        *)
(***************************************************************************)
\* the files find_main_html_file calls stat() on
stat_targets(files) ==
    LET root_files == SelectSeq(files, LAMBDA f : Len(Parent(f)) = 0)
    IN  IF Len(root_files) > 0 THEN root_files ELSE files

\* lines 1221-1223 (216-218)
FindMain ==
    /\ x_pc = "main"
    /\ IF \E f \in Range(stat_targets(html_files)) : f \notin DOMAIN tree.fs
       THEN Raise /\ UNCHANGED <<main_html, f_i, fixed_count>>
       ELSE /\ main_html' = find_main_html_file(tree, html_files)
            /\ f_i' = 1
            /\ fixed_count' = 0
            /\ x_pc' = IF main_html' = None THEN "finish" ELSE "fix"
            /\ UNCHANGED success
    /\ UNCHANGED <<cf_vars, lay_vars, t_vars, in_vars, nest_vars, tree, html_files, heic_vars, clean_vars,
                   caller, ret, raised>>

\* one turn of the loop of lines 1229-1231 (224-226); a file that cannot be
\* read is skipped by the handler of line 913
FixOne ==
    /\ x_pc = "fix"
    /\ LET html_file == html_files[f_i]
           fixed == fix_internal_links(tree.fs[html_file], html_file, html_files)
       IN  IF html_file \in DOMAIN tree.fs /\ fixed # tree.fs[html_file]
           THEN /\ tree' = [tree EXCEPT !.fs = Put(@, html_file, fixed)]
                /\ fixed_count' = fixed_count + 1
           ELSE UNCHANGED <<tree, fixed_count>>
    /\ f_i' = f_i + 1
    /\ x_pc' = IF f_i = Len(html_files) THEN "finish" ELSE "fix"
    /\ UNCHANGED <<cf_vars, lay_vars, t_vars, in_vars, nest_vars, html_files, main_html, heic_vars, clean_vars,
                   run_vars>>

\* lines 1235-1253 (230-236): the summary, the question in the GUI mode
\* (len(sys.argv) == 1), and the return value
Finish ==
    /\ x_pc = "finish"
    /\ IF caller = "process" /\ mode = "gui" /\ main_html # None
       THEN \E answer \in {"Y", "n", "eof"} :
               IF answer = "eof" THEN Raise ELSE Return("True")
       ELSE Return("True")
    /\ UNCHANGED <<cf_vars, lay_vars, t_vars, in_vars, nest_vars, tree, html_files, main_html, heic_vars,
                   clean_vars, fix_vars, caller, ret, raised>>

\* run without the handler of lines 255-257: the exception leaves run
run_result_unhandled(outcome) ==
    [ret |-> IF outcome = "True" THEN 0 ELSE 1, raised |-> outcome = "exception"]

\* run, lines 244, 253 and 255-257: what run makes of the outcome
run_result(outcome) ==
    [ret |-> IF outcome = "True" THEN 0 ELSE 1, raised |-> FALSE]

RunReturn ==
    /\ x_pc = "return"
    /\ ret' = run_result(success).ret
    /\ raised' = run_result(success).raised
    /\ x_pc' = "done"
    /\ UNCHANGED <<cf_vars, lay_vars, t_vars, in_vars, nest_vars, tree, html_files, main_html, heic_vars,
                   clean_vars, fix_vars, caller, success>>

(***************************************************************************)
(* extract_archive and extract_nested_archives, call by call               *)
(*                                                                         *)
(* A frame is one call of extract_nested_archives in progress:             *)
(*   zip_files  the ZIP files of its list still to visit, the one being    *)
(*              visited first                                              *)
(*   level      its level argument                                         *)
(*   waiting    TRUE while the call it made on line 712 has not returned   *)
(***************************************************************************)
\* extract_dir of line 693
extract_dir_of(zip_file) == PathJoin(Parent(zip_file), Stem(Name(zip_file)))

\* the frame of a call extract_nested_archives(directory, level): line 684
nested_frame(T, directory, level) ==
    [zip_files |-> SortPaths(RGlob(T, directory, {TxtZip})),
     level |-> level,
     waiting |-> FALSE]

\* lines 714-720 and the end of the turn: the ZIP file is removed when
\* cleanup_zips is set
cleaned_up(T, zip_file, cleanup) ==
    IF cleanup THEN [fs |-> Del(T.fs, {zip_file}), dirs |-> T.dirs] ELSE T

\* the frames with the turn of the innermost one ended
next_turn(stack) ==
    [stack EXCEPT ![Len(stack)] =
        [@ EXCEPT !.zip_files = Tail(@), !.waiting = FALSE]]

\* extract_archive, lines 656-671: the archive is extracted and
\* extract_nested_archives called with level + 1
ExtractTop ==
    /\ x_pc = "extract_top"
    /\ archive.state = "ok"
    /\ tree' = ExtractAll(tree, <<>>, archive.entries)
    /\ frames' = <<nested_frame(tree', <<>>, 1)>>
    /\ x_pc' = "nested"
    /\ UNCHANGED <<cf_vars, lay_vars, t_vars, in_vars, html_files, main_html, heic_vars,
                   clean_vars, fix_vars, run_vars>>

\* one turn of the loop of lines 688-727, up to the call of line 712 when
\* there is one
NestedTurn ==
    /\ x_pc = "nested"
    /\ Len(frames) > 0
    /\ LET frame == frames[Len(frames)]
           zip_file == frame.zip_files[1]
           extract_dir == extract_dir_of(zip_file)
           made == [fs |-> tree.fs, dirs |-> tree.dirs \cup {extract_dir}]
       IN  /\ ~frame.waiting
           /\ Len(frame.zip_files) > 0
           /\ IF Exists(tree, extract_dir)
              THEN /\ frames' = next_turn(frames)
                   /\ UNCHANGED tree
              ELSE IF ~tree.fs[zip_file].ok
              THEN /\ tree' = made
                   /\ frames' = next_turn(frames)
              ELSE IF frame.level < MaxNestLevel
              THEN /\ tree' = ExtractAll(made, extract_dir, tree.fs[zip_file].entries)
                   /\ frames' = Append([frames EXCEPT ![Len(frames)].waiting = TRUE],
                                       nested_frame(tree', extract_dir, frame.level + 1))
              ELSE /\ tree' = cleaned_up(ExtractAll(made, extract_dir,
                                                    tree.fs[zip_file].entries),
                                         zip_file, cleanup_zips)
                   /\ frames' = next_turn(frames)
    /\ UNCHANGED <<cf_vars, lay_vars, t_vars, in_vars, x_pc, html_files, main_html, heic_vars,
                   clean_vars, fix_vars, run_vars>>

\* the innermost call has visited its list: it returns, and its caller
\* goes on with lines 714-720; extract_archive returns True (line 673) when
\* the call was its own
NestedReturn ==
    /\ x_pc = "nested"
    /\ Len(frames) > 0
    /\ Len(frames[Len(frames)].zip_files) = 0
    /\ IF Len(frames) = 1
       THEN /\ frames' = <<>>
            /\ x_pc' = "extracted"
            /\ UNCHANGED tree
       ELSE LET rest == SubSeq(frames, 1, Len(frames) - 1)
            IN  /\ tree' = cleaned_up(tree, rest[Len(rest)].zip_files[1], cleanup_zips)
                /\ frames' = next_turn(rest)
                /\ UNCHANGED x_pc
    /\ UNCHANGED <<cf_vars, lay_vars, t_vars, in_vars, html_files, main_html, heic_vars,
                   clean_vars, fix_vars, run_vars>>

(***************************************************************************)
(* WebsiteThemeApplicator (apply_theme.py)                                 *)
(*                                                                         *)
(* The refs of a page are the attributes of its body: a src belongs to an  *)
(* <img> element, a "script" is the src of a <script> element, none lies   *)
(* in a <figure> or in the <head>, and no href names a YouTube address.    *)
(* What the run has taken out of a page stays in refs as "removed".  The   *)
(* directory's own path has no component with ExportBlock, Private or      *)
(* Shared in it, and nothing a page refers to lies outside the directory.  *)
(***************************************************************************)
TxtBackups == <<"_", "o", "r", "i", "g", "i", "n", "a", "l", "_", "b", "a", "c", "k", "u", "p", "s">>

IndexNames == {<<"i", "n", "d", "e", "x", ".", "h", "t", "m", "l">>, <<"i", "n", "d", "e", "x", ".", "h", "t", "m">>}

\* find_html_files(directory) of the theme applicator
theme_find_html_files(T, directory) ==
    SortPaths({p \in RGlob(T, directory, {<<".", "h", "t", "m", "l">>, <<".", "h", "t", "m">>}) :
                  Lower(Name(p)) \notin IndexNames})

\* clean_name before it is made unique (lines 954-963)
clean_name_of(html_file) ==
    LET original_name == Stem(Name(html_file))
        kept == SelectSeq(RemoveSpaceHexTail(original_name),
                          LAMBDA c : IsWord(c) \/ IsSpace(c) \/ c = "-")
        clean_name == Strip(CollapseSpace(kept), {" "})
    IN  IF Len(clean_name) = 0 THEN <<"s", "u", "b", "p", "a", "g", "e">> ELSE clean_name

\* the loop of lines 966-970
RECURSIVE unique_clean_name(_, _, _, _)
unique_clean_name(clean_name, original_clean_name, counter, taken) ==
    IF clean_name \in taken
    THEN unique_clean_name(original_clean_name \o <<" ">> \o IntToText(counter),
                           original_clean_name, counter + 1, taken)
    ELSE clean_name

\* mapping after the loop of lines 951-973 has gone through files
RECURSIVE add_subpages(_, _)
add_subpages(files, mapping) ==
    IF Len(files) = 0 THEN mapping
    ELSE LET taken == {mapping[k].clean_name : k \in DOMAIN mapping}
             first == clean_name_of(files[1])
             clean_name == unique_clean_name(first, first, 1, taken)
         IN  add_subpages(Tail(files),
                Put(mapping, files[1],
                    [target_filename |-> clean_name \o <<".", "h", "t", "m", "l">>,
                     clean_name |-> clean_name]))

\* a mapping that gives every file its clean name as it is
plain_mapping(files) ==
    [f \in Range(files) |->
        [target_filename |-> clean_name_of(f) \o <<".", "h", "t", "m", "l">>, clean_name |-> clean_name_of(f)]]

\* create_subpage_mapping(html_files, project_dir), lines 944-974
create_subpage_mapping(files) == add_subpages(files, [q \in {} |-> 0])

\* shutil.rmtree(d)
rmtree(T, d) ==
    [fs |-> Del(T.fs, {p \in DOMAIN T.fs : IsUnder(p, d)}),
     dirs |-> {x \in T.dirs : x # d /\ ~IsUnder(x, d)}]

\* the file or directory the host finds for text rel taken from directory
\* cur, None when there is none: "." and ".." are followed
RECURSIVE resolve_parts(_, _, _)
resolve_parts(T, cur, parts) ==
    IF cur = None THEN None
    ELSE IF Len(parts) = 0 THEN (IF Exists(T, cur) THEN cur ELSE None)
    ELSE IF Len(parts[1]) = 0 \/ parts[1] = <<".">>
         THEN resolve_parts(T, cur, Tail(parts))
    ELSE IF parts[1] = <<".", ".">>
         THEN resolve_parts(T, IF Len(cur) = 0 \/ cur \notin T.dirs THEN None
                               ELSE Parent(cur), Tail(parts))
    ELSE resolve_parts(T, PathJoin(cur, parts[1]), Tail(parts))

resolve(T, dir, rel) ==
    IF Len(rel) > 0 /\ rel[1] = "/" THEN None
    ELSE resolve_parts(T, dir, Split(rel, "/"))

\* dir / rel as pathlib writes it: "" and "." dropped, ".." kept
pure_path(dir, rel) ==
    LET parts == SelectSeq(Split(rel, "/"), LAMBDA c : Len(c) > 0 /\ c # <<".">>)
    IN  IF Len(parts) = 0 THEN dir ELSE PathJoin(dir, Join(parts, <<"/">>))

\* the directories os.walk(source_dir) visits
walk_dirs(T, source_dir) == {source_dir} \cup {d \in T.dirs : IsUnder(d, source_dir)}

\* the directories that can be the first of the walk to satisfy hit: a
\* directory comes before those below it, in the order of the listing otherwise
first_in_walk(T, source_dir, hits) ==
    {d \in walk_dirs(T, source_dir) \cap hits :
        \A a \in walk_dirs(T, source_dir) \cap hits : ~(a # d /\ IsUnder(d, a))}

\* ---- copy_and_fix_images
\* the image is of a format the browsers cannot show (lines 225-229)
unsupported_image(img_src) ==
    Lower(Suffix(PathNameOf(Unquote(img_src)))) \in {<<".", "h", "e", "i", "c">>, <<".", "h", "e", "i", "f">>}

\* the paths source_file can be (lines 231-249)
image_sources(T, source_dir, decoded_src) ==
    LET file_name == PathNameOf(decoded_src)
        in_dir == {d \in walk_dirs(T, source_dir) : PathJoin(d, file_name) \in DOMAIN T.fs}
    IN  IF resolve(T, source_dir, decoded_src) # None
        THEN {resolve(T, source_dir, decoded_src)}
        ELSE IF resolve(T, source_dir, file_name) # None
        THEN {resolve(T, source_dir, file_name)}
        ELSE {PathJoin(d, file_name) : d \in first_in_walk(T, source_dir, in_dir)}

\* shutil.copy2(source_file, target_file) works
can_copy(T, source_file, target_file) ==
    /\ source_file \in DOMAIN T.fs
    /\ source_file # target_file
    /\ PathJoin(target_file, Name(source_file)) \notin T.dirs

\* the tree after shutil.copy2(source_file, target_file)
copy2(T, source_file, target_file) ==
    [fs |-> Put(T.fs,
                IF target_file \in T.dirs THEN PathJoin(target_file, Name(source_file))
                ELSE target_file,
                T.fs[source_file]),
     dirs |-> T.dirs]

\* the loop of lines 219-263 from attribute i on: the possible outcomes
\* [T, copied], copied the src values of copied_images
RECURSIVE copy_images(_, _, _, _, _, _)
copy_images(T, refs, i, source_dir, target_dir, copied) ==
    IF i > Len(refs) THEN {[T |-> T, copied |-> copied]}
    ELSE
      LET img_src == refs[i].v
          sources == image_sources(T, source_dir, Unquote(img_src))
          target_of(s) == PathJoin(target_dir, Name(s))
      IN  IF refs[i].a \notin {"src", "script"} \/ Len(img_src) = 0 \/ unsupported_image(img_src)
             \/ sources = {}
          THEN copy_images(T, refs, i + 1, source_dir, target_dir, copied)
          ELSE UNION {
                 IF can_copy(T, s, target_of(s))
                 THEN copy_images(copy2(T, s, target_of(s)), refs, i + 1,
                                  source_dir, target_dir, copied \cup {img_src})
                 ELSE copy_images(T, refs, i + 1, source_dir, target_dir, copied)
                 : s \in sources}

\* an attribute after lines 265-281, and after the scripts are removed
\* (line 379) and replace_img is applied (lines 396-421)
fix_image(ref, copied, source_dir, target_dir) ==
    LET file_name == PathNameOf(Unquote(ref.v))
        new_src == IF target_dir = source_dir THEN file_name ELSE <<".", "/">> \o file_name
    IN  IF ref.a = "script" THEN [a |-> "removed", v |-> <<>>]
        ELSE IF ref.a # "src" THEN ref
        ELSE IF Len(ref.v) > 0 /\ unsupported_image(ref.v)
        THEN [a |-> "removed", v |-> file_name]
        ELSE [ref EXCEPT !.v = PathNameOf(Unquote(IF ref.v \in copied THEN new_src ELSE ref.v))]

\* ---- fix_internal_links of the theme applicator
\* href_variations (lines 298-307)
href_variations(decoded_href) ==
    << decoded_href,
       PathNameOf(decoded_href),
       ReplaceAll(decoded_href, <<" ">>, <<"_">>),
       ReplaceAll(PathNameOf(decoded_href), <<" ">>, <<"_">>),
       ReplaceAll(decoded_href, <<"_">>, <<" ">>),
       ReplaceAll(PathNameOf(decoded_href), <<"_">>, <<" ">>) >>

\* what one directory of the walk makes of a variation (lines 317-328)
variation_hit(T, root_path, variation) ==
    \/ resolve(T, root_path, variation) # None
    \/ PathJoin(root_path, PathNameOf(variation)) \in DOMAIN T.fs

variation_target(T, root_path, variation) ==
    IF resolve(T, root_path, variation) # None THEN pure_path(root_path, variation)
    ELSE PathJoin(root_path, PathNameOf(variation))

\* the values target_file can have after lines 313-331, None among them
\* when nothing is found
RECURSIVE target_files(_, _, _)
target_files(T, source_dir, variations) ==
    IF Len(variations) = 0 THEN {None}
    ELSE LET hit == {d \in walk_dirs(T, source_dir) : variation_hit(T, d, variations[1])}
             firsts == first_in_walk(T, source_dir, hit)
         IN  IF firsts # {}
             THEN {variation_target(T, d, variations[1]) : d \in firsts}
             ELSE target_files(T, source_dir, Tail(variations))

\* the values replace_href can give an href (lines 293-339)
replace_href(T, original_href, mapping, source_file) ==
    {IF target_file \in DOMAIN mapping THEN mapping[target_file].target_filename
     ELSE original_href :
        target_file \in target_files(T, Parent(source_file),
                                     href_variations(Unquote(original_href)))}

\* the attribute lists fix_internal_links can leave (line 341)
RECURSIVE theme_fix_internal_links(_, _, _, _)
theme_fix_internal_links(T, refs, mapping, source_file) ==
    IF Len(refs) = 0 THEN {<<>>}
    ELSE LET rest == theme_fix_internal_links(T, Tail(refs), mapping, source_file)
             firsts == IF refs[1].a = "href" /\ EndsWith(refs[1].v, <<".", "h", "t", "m", "l">>)
                       THEN {[refs[1] EXCEPT !.v = h] :
                               h \in replace_href(T, refs[1].v, mapping, source_file)}
                       ELSE {refs[1]}
         IN  {<<f>> \o r : f \in firsts, r \in rest}

\* ---- process_html_file_with_subpages
\* a parent's name marks a subpage that is moved up (line 881)
is_marker(name) ==
    \/ Contains(name, TxtExportBlock)
    \/ Contains(name, <<"P", "r", "i", "v", "a", "t", "e">>)
    \/ Contains(name, <<"S", "h", "a", "r", "e", "d">>)

\* path.parents[k] counted from the parent of path
RECURSIVE parents_at(_, _)
parents_at(path, k) == IF k = 0 THEN Parent(path) ELSE parents_at(Parent(path), k - 1)

target_dir_of(html_file) ==
    parents_at(html_file,
               Cardinality({d \in Ancestors(html_file) : is_marker(Name(d))}))

\* the attributes of the template's body before and after {{CONTENT}}
\* (get_template_content, lines 152-181 and 187-188)
TemplateNav ==
    << [a |-> "href", v |-> <<".", ".", "/", ".", ".", "/", "i", "n", "d", "e", "x", ".", "h", "t", "m", "l">>],
       [a |-> "href", v |-> <<".", ".", "/", ".", ".", "/", "r", "e", "s", "u", "m", "e", ".", "h", "t", "m", "l">>],
       [a |-> "href", v |-> <<".", ".", "/", ".", ".", "/", "p", "r", "o", "j", "e", "c", "t", "s", ".", "h", "t", "m", "l">>] >>

TemplateEnd ==
    << [a |-> "href", v |-> <<".", ".", "/", ".", ".", "/", "p", "r", "o", "j", "e", "c", "t", "s", ".", "h", "t", "m", "l">>],
       [a |-> "script", v |-> <<".", ".", "/", ".", ".", "/", "a", "s", "s", "e", "t", "s", "/", "j", "s", "/", "m", "a", "i", "n", ".", "j", "s">>] >>

\* the page the template makes of content c with attributes refs
themed(c, refs) ==
    [c EXCEPT !.id = <<"themed">> \o @, !.refs = TemplateNav \o refs \o TemplateEnd]

\* the backup copy of lines 860-870
backup_file_of(html_file) == PathJoin(TxtBackups, html_file)

backed_up(T, html_file) ==
    [fs |-> Put(T.fs, backup_file_of(html_file), T.fs[html_file]),
     dirs |-> T.dirs \cup Ancestors(backup_file_of(html_file))]

\* the possible outcomes [T, ok] of the try block of lines 872-914
process_outcomes(T, html_file, mapping) ==
    LET c == T.fs[html_file]
        source_dir == Parent(html_file)
        target_dir == target_dir_of(html_file)
        target_file == PathJoin(target_dir, mapping[html_file].target_filename)
        written(U, refs) ==
            IF target_file \in U.dirs THEN [T |-> U, ok |-> FALSE]
            ELSE [T |-> [fs |-> Del(Put(U.fs, target_file, themed(c, refs)),
                                    IF target_file # html_file THEN {html_file} ELSE {}),
                         dirs |-> U.dirs],
                  ok |-> TRUE]
    IN  IF html_file \notin DOMAIN T.fs THEN {[T |-> T, ok |-> FALSE]}
        ELSE UNION {
               {written(o.T, [i \in 1..Len(refs) |->
                                 fix_image(refs[i], o.copied, source_dir, target_dir)]) :
                  refs \in theme_fix_internal_links(o.T, c.refs, mapping, html_file)}
               : o \in copy_images(T, c.refs, 1, source_dir, target_dir, {})}

\* ---- WebsiteThemeApplicator.run and process_directory
TReturn(v) ==
    /\ t_success' = v
    /\ t_pc' = "return"

\* run, lines 1319-1325
ThemeRunStart ==
    /\ t_pc = "run"
    /\ IF t_mode = "gui"
       THEN \E selected \in BOOLEAN :
               IF selected THEN t_pc' = "process" /\ UNCHANGED t_ret
               ELSE t_pc' = "done" /\ t_ret' = 1
       ELSE t_pc' = "process" /\ UNCHANGED t_ret
    /\ UNCHANGED <<cf_vars, lay_vars, x_vars, pr_vars, t_in_vars, t_tree, t_html_files, backup_dir,
                   subpage_mapping, p_i, processed_count, t_failed_count, t_success>>

\* process_directory, lines 1244-1264 and 1284-1289
ProcessDirectoryStart ==
    /\ t_pc = "process"
    /\ IF ~dir_exists THEN TReturn("False") /\ UNCHANGED t_html_files
       ELSE /\ t_html_files' = theme_find_html_files(t_tree, directory_path)
            /\ IF Len(t_html_files') = 0 THEN TReturn("False")
               ELSE /\ t_pc' = IF create_project_structure THEN "structure"
                              ELSE IF create_backups THEN "backup" ELSE "map"
                    /\ UNCHANGED t_success
    /\ UNCHANGED <<cf_vars, lay_vars, x_vars, pr_vars, t_in_vars, t_tree, backup_dir, subpage_mapping,
                   p_i, processed_count, t_failed_count, t_ret>>

\* create_backup_dir, lines 1016-1028, called on line 1288
CreateBackupDir ==
    /\ t_pc = "backup"
    /\ LET made(T) == [fs |-> T.fs, dirs |-> T.dirs \cup {TxtBackups}]
       IN  IF Exists(t_tree, TxtBackups)
           THEN \E response \in {"y", "n", "eof"} :
                   \/ /\ response = "y"
                      /\ t_tree' = made(rmtree(t_tree, TxtBackups))
                      /\ backup_dir' = TxtBackups
                      /\ t_pc' = "map"
                      /\ UNCHANGED t_success
                   \/ /\ response = "n"
                      /\ t_pc' = "map"
                      /\ UNCHANGED <<t_tree, backup_dir, t_success>>
                   \/ /\ response = "eof"
                      /\ TReturn("exception")
                      /\ UNCHANGED <<t_tree, backup_dir>>
           ELSE /\ t_tree' = made(t_tree)
                /\ backup_dir' = TxtBackups
                /\ t_pc' = "map"
                /\ UNCHANGED t_success
    /\ UNCHANGED <<cf_vars, lay_vars, x_vars, pr_vars, t_in_vars, t_html_files, subpage_mapping, p_i,
                   processed_count, t_failed_count, t_ret>>

\* lines 1292-1297
CreateSubpageMapping ==
    /\ t_pc = "map"
    /\ subpage_mapping' = create_subpage_mapping(t_html_files)
    /\ p_i' = 1
    /\ processed_count' = 0
    /\ t_failed_count' = 0
    /\ t_pc' = "loop"
    /\ UNCHANGED <<cf_vars, lay_vars, x_vars, pr_vars, t_in_vars, t_tree, t_html_files, backup_dir,
                   t_success, t_ret>>

\* one turn of the loop of lines 1299-1303: process_html_file_with_subpages;
\* the copy of lines 860-870 is made outside its try block
ProcessFile ==
    /\ t_pc = "loop"
    /\ p_i <= Len(t_html_files)
    /\ LET html_file == t_html_files[p_i]
       IN  IF backup_dir # None /\ html_file \notin DOMAIN t_tree.fs
           THEN /\ t_tree' = [t_tree EXCEPT
                                  !.dirs = @ \cup Ancestors(backup_file_of(html_file))]
                /\ TReturn("exception")
                /\ UNCHANGED <<p_i, processed_count, t_failed_count>>
           ELSE \E o \in process_outcomes(
                            IF backup_dir # None THEN backed_up(t_tree, html_file)
                            ELSE t_tree,
                            html_file, subpage_mapping) :
                   /\ t_tree' = o.T
                   /\ processed_count' = IF o.ok THEN processed_count + 1 ELSE processed_count
                   /\ t_failed_count' = IF o.ok THEN t_failed_count ELSE t_failed_count + 1
                   /\ p_i' = p_i + 1
                   /\ UNCHANGED <<t_pc, t_success>>
    /\ UNCHANGED <<cf_vars, lay_vars, x_vars, pr_vars, t_in_vars, t_html_files, backup_dir,
                   subpage_mapping, t_ret>>

\* lines 1305-1313
ProcessDirectoryEnd ==
    /\ t_pc = "loop"
    /\ p_i > Len(t_html_files)
    /\ TReturn("True")
    /\ UNCHANGED <<cf_vars, lay_vars, x_vars, pr_vars, t_in_vars, t_tree, t_html_files, backup_dir,
                   subpage_mapping, p_i, processed_count, t_failed_count, t_ret>>

\* run, lines 1327-1334
ThemeRunReturn ==
    /\ t_pc = "return"
    /\ t_ret' = IF t_success = "True" THEN 0 ELSE 1
    /\ t_pc' = "done"
    /\ UNCHANGED <<cf_vars, lay_vars, x_vars, pr_vars, t_in_vars, t_tree, t_html_files, backup_dir,
                   subpage_mapping, p_i, processed_count, t_failed_count, t_success>>

(***************************************************************************)
(* WebsiteThemeApplicator, project-structure mode                          *)
(*                                                                         *)
(* Paths are seen from the working directory, whose own path is the empty  *)
(* text: that is what pathlib makes of ".".                                *)
(***************************************************************************)
\* the host's limit on the length of a path (PATH_MAX), small here
PathMax == 30

AssetExtensions ==
    {<<".", "p", "n", "g">>, <<".", "j", "p", "g">>, <<".", "j", "p", "e", "g">>, <<".", "g", "i", "f">>, <<".", "s", "v", "g">>, <<".", "w", "e", "b", "p">>, <<".", "c", "s", "s">>, <<".", "j", "s">>, <<".", "p", "d", "f">>, <<".", "d", "o", "c">>, <<".", "d", "o", "c", "x">>}

\* project_dir of create_project_structure (lines 1034-1038)
project_dir_of(directory) == PathJoin(Parent(directory), Name(directory) \o <<"_", "p", "r", "o", "j", "e", "c", "t">>)

\* file_path.relative_to(source_dir)
relative_to(file_path, source_dir) ==
    IF Len(source_dir) = 0 THEN file_path
    ELSE Slice(file_path, Len(source_dir) + 2, Len(file_path))

\* the possible outcomes [T, ok] of the try block of lines 1169-1207
project_outcomes(T, html_file, mapping, pd) ==
    LET c == T.fs[html_file]
        source_dir == Parent(html_file)
        output_file == PathJoin(pd, mapping[html_file].target_filename)
        written(U, refs) ==
            IF output_file \in U.dirs \/ pd \notin U.dirs THEN [T |-> U, ok |-> FALSE]
            ELSE [T |-> [fs |-> Put(U.fs, output_file, themed(c, refs)), dirs |-> U.dirs],
                  ok |-> TRUE]
    IN  IF html_file \notin DOMAIN T.fs THEN {[T |-> T, ok |-> FALSE]}
        ELSE UNION {
               {written(o.T, [i \in 1..Len(refs) |->
                                 fix_image(refs[i], o.copied, source_dir, pd)]) :
                  refs \in theme_fix_internal_links(o.T, c.refs, mapping, html_file)}
               : o \in copy_images(T, c.refs, 1, source_dir, pd, {})}

\* ---- copy_assets
\* the assets rglob lists in directory d (line 1225)
assets_in(T, d) ==
    {p \in DOMAIN T.fs : Parent(p) = d /\ Lower(Suffix(Name(p))) \in AssetExtensions}

\* the directories rglob lists in directory d
subdirs_in(T, d) == {x \in T.dirs : Parent(x) = d}

\* dest_path of line 1228
dest_path_of(file_path, source_dir, pd) == PathJoin(pd, relative_to(file_path, source_dir))

\* lines 1231 and 1234 work for file_path
asset_copies(T, file_path, dest_path) ==
    /\ Len(dest_path) <= PathMax
    /\ dest_path \notin T.dirs
    /\ Ancestors(dest_path) \cap DOMAIN T.fs = {}
    /\ file_path # dest_path

\* the tree after lines 1231 and 1234 for each file of files
copied_assets(T, files, source_dir, pd) ==
    [fs |-> [q \in DOMAIN T.fs \cup {dest_path_of(p, source_dir, pd) : p \in files} |->
                IF \E p \in files : dest_path_of(p, source_dir, pd) = q
                THEN T.fs[CHOOSE p \in files : dest_path_of(p, source_dir, pd) = q]
                ELSE T.fs[q]],
     dirs |-> T.dirs \cup UNION {Ancestors(dest_path_of(p, source_dir, pd)) : p \in files}]

\* the possible outcomes [T, ok] of the loop of lines 1224-1235 over the
\* assets of directory d, which the host lists in any order
asset_outcomes(T, d, source_dir, pd) ==
    LET listed == assets_in(T, d)
        good == {p \in listed : asset_copies(T, p, dest_path_of(p, source_dir, pd))}
    IN  IF good = listed
        THEN {[T |-> copied_assets(T, listed, source_dir, pd), ok |-> TRUE]}
        ELSE {[T |-> copied_assets(T, S, source_dir, pd), ok |-> FALSE] : S \in SUBSET good}

\* create_project_structure, lines 1030-1050, called on line 1266
CreateProjectStructure ==
    /\ t_pc = "structure"
    /\ LET pd == project_dir_of(directory_path)
           made(T) == [fs |-> T.fs, dirs |-> T.dirs \cup {pd}]
       IN  IF Exists(t_tree, pd)
           THEN \E response \in {"y", "n", "eof"} :
                   \/ /\ response = "y"
                      /\ IF pd \in t_tree.dirs
                         THEN /\ t_tree' = made(rmtree(t_tree, pd))
                              /\ project_dir' = pd
                              /\ t_pc' = "project_map"
                              /\ UNCHANGED t_success
                         ELSE /\ TReturn("exception")
                              /\ UNCHANGED <<t_tree, project_dir>>
                   \/ /\ response = "n"
                      /\ TReturn("False")
                      /\ UNCHANGED <<t_tree, project_dir>>
                   \/ /\ response = "eof"
                      /\ TReturn("exception")
                      /\ UNCHANGED <<t_tree, project_dir>>
           ELSE /\ t_tree' = made(t_tree)
                /\ project_dir' = pd
                /\ t_pc' = "project_map"
                /\ UNCHANGED t_success
    /\ UNCHANGED <<cf_vars, lay_vars, x_vars, t_in_vars, t_html_files, backup_dir, subpage_mapping,
                   p_i, processed_count, t_failed_count, t_ret, asset_walk>>

\* process_files_for_project_structure, lines 1140-1166; main_html_file is
\* used for what is printed only
ProjectMapping ==
    /\ t_pc = "project_map"
    /\ subpage_mapping' = create_subpage_mapping(t_html_files)
    /\ p_i' = 1
    /\ processed_count' = 0
    /\ t_pc' = "project_loop"
    /\ UNCHANGED <<cf_vars, lay_vars, x_vars, pr_vars, t_in_vars, t_tree, t_html_files, backup_dir,
                   t_failed_count, t_success, t_ret>>

\* one turn of the loop of lines 1168-1207
ProjectFile ==
    /\ t_pc = "project_loop"
    /\ p_i <= Len(t_html_files)
    /\ \E o \in project_outcomes(t_tree, t_html_files[p_i], subpage_mapping, project_dir) :
          /\ t_tree' = o.T
          /\ processed_count' = IF o.ok THEN processed_count + 1 ELSE processed_count
    /\ p_i' = p_i + 1
    /\ UNCHANGED <<cf_vars, lay_vars, x_vars, pr_vars, t_in_vars, t_pc, t_html_files, backup_dir,
                   subpage_mapping, t_failed_count, t_success, t_ret>>

\* lines 1209-1212, and copy_assets up to the first directory of rglob
\* (lines 1214-1224)
CopyAssetsStart ==
    /\ t_pc = "project_loop"
    /\ p_i > Len(t_html_files)
    /\ asset_walk' = << {directory_path} >>
    /\ t_pc' = "assets"
    /\ UNCHANGED <<cf_vars, lay_vars, x_vars, t_in_vars, t_tree, t_html_files, backup_dir,
                   subpage_mapping, p_i, processed_count, t_failed_count, t_success,
                   t_ret, project_dir>>

\* copy_assets in one directory of the walk: rglob lists its files, the
\* loop of lines 1224-1235 copies them, rglob lists its directories
CopyAssetsDir ==
    /\ t_pc = "assets"
    /\ Len(asset_walk) > 0
    /\ \E d \in asset_walk[Len(asset_walk)] :
       \E o \in asset_outcomes(t_tree, d, directory_path, project_dir) :
          /\ t_tree' = o.T
          /\ IF o.ok
             THEN /\ asset_walk' = Append([asset_walk EXCEPT ![Len(asset_walk)] = @ \ {d}],
                                          subdirs_in(o.T, d))
                  /\ UNCHANGED <<t_pc, t_success>>
             ELSE /\ asset_walk' = <<>>
                  /\ TReturn("exception")
    /\ UNCHANGED <<cf_vars, lay_vars, x_vars, t_in_vars, t_html_files, backup_dir, subpage_mapping,
                   p_i, processed_count, t_failed_count, t_ret, project_dir>>

\* rglob has been through a directory; after the last one copy_assets
\* returns (lines 1236-1239) and process_directory with it (lines 1276-1283)
CopyAssetsLeave ==
    /\ t_pc = "assets"
    /\ Len(asset_walk) > 0
    /\ asset_walk[Len(asset_walk)] = {}
    /\ asset_walk' = SubSeq(asset_walk, 1, Len(asset_walk) - 1)
    /\ IF Len(asset_walk) = 1 THEN TReturn("True") ELSE UNCHANGED <<t_pc, t_success>>
    /\ UNCHANGED <<cf_vars, lay_vars, x_vars, t_in_vars, t_tree, t_html_files, backup_dir,
                   subpage_mapping, p_i, processed_count, t_failed_count, t_ret,
                   project_dir>>
(***************************************************************************)
(* The layout converters of the theme applicator                           *)
(*                                                                         *)
(* Content is a sequence of tokens: an opening tag with the style the      *)
(* converters look for ("flex", "width" for a percentage width, "float",   *)
(* or "none") and its class, a closing tag, an <img> tag, or text without  *)
(* any tag in it.  No white space lies between two tags.                   *)
(***************************************************************************)
Open(tag, style, class) == [t |-> "open", tag |-> tag, style |-> style, class |-> class]

Close(tag) == [t |-> "close", tag |-> tag, style |-> "none", class |-> <<>>]

Leaf(t) == [t |-> t, tag |-> "", style |-> "none", class |-> <<>>]

IsOpen(token, tags) == token.t = "open" /\ token.tag \in tags

\* the first closing tag of tags from position i on, 0 when there is none:
\* where  .*?</tag>  ends
first_close(content, i, tags) ==
    LET at == {j \in i..Len(content) : content[j].t = "close" /\ content[j].tag \in tags}
    IN  IF at = {} THEN 0 ELSE Min(at)

\* grid_class of replace_table_with_grid (lines 525-531)
table_grid_class(cell_count) ==
    <<"i", "m", "a", "g", "e", "-", "g", "r", "i", "d">> \o (IF cell_count = 2 THEN <<" ", "t", "w", "o", "-", "c", "o", "l", "u", "m", "n">>
                     ELSE IF cell_count = 3 THEN <<" ", "t", "h", "r", "e", "e", "-", "c", "o", "l", "u", "m", "n">>
                     ELSE IF cell_count >= 4 THEN <<" ", "f", "o", "u", "r", "-", "c", "o", "l", "u", "m", "n">> ELSE <<>>)

\* grid_class of replace_flex_container (lines 560-566)
flex_grid_class(child_count) ==
    <<"i", "m", "a", "g", "e", "-", "g", "r", "i", "d">> \o (IF child_count = 2 THEN <<" ", "t", "w", "o", "-", "c", "o", "l", "u", "m", "n">>
                     ELSE IF child_count = 3 THEN <<" ", "t", "h", "r", "e", "e", "-", "c", "o", "l", "u", "m", "n">>
                     ELSE IF child_count >= 4 THEN <<" ", "f", "o", "u", "r", "-", "c", "o", "l", "u", "m", "n">> ELSE <<>>)

\* grid_class of replace_percentage_divs (lines 588-594)
percentage_grid_class(div_count) ==
    <<"i", "m", "a", "g", "e", "-", "g", "r", "i", "d">> \o (IF div_count = 2 THEN <<" ", "t", "w", "o", "-", "c", "o", "l", "u", "m", "n">>
                     ELSE IF div_count = 3 THEN <<" ", "t", "h", "r", "e", "e", "-", "c", "o", "l", "u", "m", "n">>
                     ELSE IF div_count >= 4 THEN <<" ", "f", "o", "u", "r", "-", "c", "o", "l", "u", "m", "n">> ELSE <<>>)

\* grid_class of replace_floated_elements (lines 618-624)
float_grid_class(float_count) ==
    <<"i", "m", "a", "g", "e", "-", "g", "r", "i", "d">> \o (IF float_count = 2 THEN <<" ", "t", "w", "o", "-", "c", "o", "l", "u", "m", "n">>
                     ELSE IF float_count = 3 THEN <<" ", "t", "h", "r", "e", "e", "-", "c", "o", "l", "u", "m", "n">>
                     ELSE IF float_count >= 4 THEN <<" ", "f", "o", "u", "r", "-", "c", "o", "l", "u", "m", "n">> ELSE <<>>)

\* re.findall(r'<tag[^>]*>(.*?)</tag>', content) from position i on
RECURSIVE find_elements(_, _, _)
find_elements(content, i, tag) ==
    LET opens == {j \in i..Len(content) : IsOpen(content[j], {tag})}
        a == Min(opens)
        b == first_close(content, a + 1, {tag})
    IN  IF opens = {} \/ b = 0 THEN <<>>
        ELSE <<SubSeq(content, a + 1, b - 1)>> \o find_elements(content, b + 1, tag)

\* replace_table_with_grid (lines 515-540)
replace_table_with_grid(table_content) ==
    LET cell_count == Cardinality({j \in 1..Len(table_content) :
                                     IsOpen(table_content[j], {"td"})})
        cells == find_elements(table_content, 1, "td")
        shown(cell) ==
            IF \E j \in 1..Len(cell) : cell[j].t = "img"
            THEN <<Open("div", "none", <<"i", "m", "a", "g", "e", "-", "w", "i", "t", "h", "-", "c", "a", "p", "t", "i", "o", "n">>)>> \o cell
                    \o <<Open("div", "none", <<"c", "a", "p", "t", "i", "o", "n">>), Close("div"), Close("div")>>
            ELSE <<Open("div", "none", <<>>)>> \o cell \o <<Close("div")>>
        RECURSIVE all_shown(_)
        all_shown(k) == IF k > Len(cells) THEN <<>> ELSE shown(cells[k]) \o all_shown(k + 1)
    IN  <<Open("div", "none", table_grid_class(cell_count))>> \o all_shown(1)
           \o <<Close("div")>>

\* convert_table_layout_to_grid (lines 542-549), from position i on
RECURSIVE convert_table_from(_, _)
convert_table_from(content, i) ==
    IF i > Len(content) THEN <<>>
    ELSE LET j == first_close(content, i + 1, {"table"})
         IN  IF IsOpen(content[i], {"table"}) /\ j # 0
             THEN replace_table_with_grid(SubSeq(content, i + 1, j - 1))
                     \o convert_table_from(content, j + 1)
             ELSE <<content[i]>> \o convert_table_from(content, i + 1)

convert_table_layout_to_grid(content) == convert_table_from(content, 1)

\* replace_flex_container (lines 553-568)
replace_flex_container(flex_content) ==
    LET children == find_elements(flex_content, 1, "div")
        child_count == Len(children)
    IN  <<Open("div", "none", flex_grid_class(child_count))>> \o flex_content
           \o <<Close("div")>>

\* convert_flex_layout_to_grid (lines 570-577), from position i on
RECURSIVE convert_flex_from(_, _)
convert_flex_from(content, i) ==
    IF i > Len(content) THEN <<>>
    ELSE LET j == first_close(content, i + 1, {"div"})
         IN  IF IsOpen(content[i], {"div"}) /\ content[i].style = "flex" /\ j # 0
             THEN replace_flex_container(SubSeq(content, i + 1, j - 1))
                     \o convert_flex_from(content, j + 1)
             ELSE <<content[i]>> \o convert_flex_from(content, i + 1)

convert_flex_layout_to_grid(content) == convert_flex_from(content, 1)

\* the elements  <tag style>.*?</tag>  that follow each other from position
\* i on: [last, count], last the position of the last closing tag
RECURSIVE styled_run(_, _, _, _, _)
styled_run(content, i, style, tags, count) ==
    LET j == first_close(content, i + 1, tags)
    IN  IF i <= Len(content) /\ IsOpen(content[i], tags) /\ content[i].style = style /\ j # 0
        THEN styled_run(content, j + 1, style, tags, count + 1)
        ELSE [last |-> i - 1, count |-> count]

\* re.sub(r'width:\s*[0-9]+%;?\s*', '', divs) and
\* re.sub(r'float:\s*(left|right);?\s*', '', elements)
without_style(content, style) ==
    [j \in 1..Len(content) |->
        IF content[j].style = style THEN [content[j] EXCEPT !.style = "none"]
        ELSE content[j]]

styled_count(content, style) == Cardinality({j \in 1..Len(content) : content[j].style = style})

\* replace_percentage_divs (lines 582-598)
replace_percentage_divs(divs) ==
    <<Open("div", "none", percentage_grid_class(styled_count(divs, "width")))>>
       \o without_style(divs, "width") \o <<Close("div")>>

\* convert_percentage_layout_to_grid (lines 600-607), from position i on
RECURSIVE convert_percentage_from(_, _)
convert_percentage_from(content, i) ==
    IF i > Len(content) THEN <<>>
    ELSE LET run == styled_run(content, i, "width", {"div"}, 0)
         IN  IF run.count >= 2
             THEN replace_percentage_divs(SubSeq(content, i, run.last))
                     \o convert_percentage_from(content, run.last + 1)
             ELSE <<content[i]>> \o convert_percentage_from(content, i + 1)

convert_percentage_layout_to_grid(content) == convert_percentage_from(content, 1)

\* the tags of the content: any of them matches  <[^>]*  and  </[^>]*>
AnyTag == {"table", "tr", "td", "div", "p"}

\* replace_floated_elements (lines 612-628)
replace_floated_elements(elements) ==
    <<Open("div", "none", float_grid_class(styled_count(elements, "float")))>>
       \o without_style(elements, "float") \o <<Close("div")>>

\* convert_float_layout_to_grid (lines 630-637), from position i on
RECURSIVE convert_float_from(_, _)
convert_float_from(content, i) ==
    IF i > Len(content) THEN <<>>
    ELSE LET run == styled_run(content, i, "float", AnyTag, 0)
         IN  IF run.count >= 2
             THEN replace_floated_elements(SubSeq(content, i, run.last))
                     \o convert_float_from(content, run.last + 1)
             ELSE <<content[i]>> \o convert_float_from(content, i + 1)

convert_float_layout_to_grid(content) == convert_float_from(content, 1)

\* the converter of each kind of layout
converted_by(converter, content) ==
    CASE converter = "table" -> convert_table_layout_to_grid(content)
      [] converter = "flex" -> convert_flex_layout_to_grid(content)
      [] converter = "percentage" -> convert_percentage_layout_to_grid(content)
      [] converter = "float" -> convert_float_layout_to_grid(content)

\* a call of one of the converters on the page's content
ConvertLayout ==
    /\ lay_pc = "input"
    /\ converted' = converted_by(lay_kind, lay_content)
    /\ lay_pc' = "done"
    /\ UNCHANGED <<cf_vars, lay_in_vars, x_vars, t_vars>>
(***************************************************************************)
(* The archives and directories the extractor is run on                    *)
(***************************************************************************)
File(id, refs, pad) ==
    [id |-> <<id>>, refs |-> refs, pad |-> pad, entries |-> <<>>, ok |-> FALSE]

Zip(id, entries, ok) ==
    [id |-> <<id>>, refs |-> <<>>, pad |-> 0, entries |-> entries, ok |-> ok]

\* the members an archive is made of
Members ==
    << <<<<"H", "o", "m", "e", ".", "h", "t", "m", "l">>,
         File("home", <<[a |-> "href", v |-> <<"h", "t", "t", "p", "s", ":", "/", "/", "w", "w", "w", ".", "n", "o", "t", "i", "o", "n", ".", "s", "o", "/", "S", "u", "b", "-", "0", "1", "2", "3", "4", "5", "6", "7", "8", "9", "a", "b", "c", "d", "e", "f", "0", "1", "2", "3", "4", "5", "6", "7", "8", "9", "a", "b", "c", "d", "e", "f">>], [a |-> "href", v |-> <<"S", "u", "b", "%", "2", "0", "0", "1", "2", "3", "4", "5", "6", "7", "8", "9", "a", "b", "c", "d", "e", "f", "0", "1", "2", "3", "4", "5", "6", "7", "8", "9", "a", "b", "c", "d", "e", "f", ".", "h", "t", "m", "l">>], [a |-> "src", v |-> <<"p", "h", "o", "t", "o", ".", "h", "e", "i", "c">>], [a |-> "href", v |-> <<"h", "t", "t", "p", "s", ":", "/", "/", "e", "x", "a", "m", "p", "l", "e", ".", "c", "o", "m", "/", "x", ".", "h", "t", "m", "l">>]>>, 6)>>,
       <<<<"S", "u", "b", " ", "0", "1", "2", "3", "4", "5", "6", "7", "8", "9", "a", "b", "c", "d", "e", "f", "0", "1", "2", "3", "4", "5", "6", "7", "8", "9", "a", "b", "c", "d", "e", "f", ".", "h", "t", "m", "l">>,
         File("sub", <<[a |-> "href", v |-> <<"H", "o", "m", "e", ".", "h", "t", "m", "l">>], [a |-> "href", v |-> <<"h", "t", "t", "p", "s", ":", "/", "/", "n", "o", "t", "i", "o", "n", ".", "s", "o", "/", "0", "1", "2", "3", "4", "5", "6", "7", "-", "8", "9", "a", "b", "-", "c", "d", "e", "f", "-", "0", "1", "2", "3", "-", "4", "5", "6", "7", "8", "9", "a", "b", "c", "d", "e", "f">>]>>, 4)>>,
       <<<<"p", "a", "c", "k", ".", "z", "i", "p">>,
         Zip("pack", << <<<<"D", "e", "e", "p", ".", "h", "t", "m", "l">>,
         File("deep", <<[a |-> "href", v |-> <<".", ".", "/", "H", "o", "m", "e", ".", "h", "t", "m", "l">>]>>, 9)>>,
       <<<<"i", "n", "n", "e", "r", ".", "z", "i", "p">>,
         Zip("inner", <<>>, FALSE)>> >>, TRUE)>>,
       <<<<"p", "h", "o", "t", "o", ".", "h", "e", "i", "c">>,
         File("photo", <<>>, 5)>>,
       <<<<"d", "o", "c", "s", "/", "N", "o", "t", "e", ".", "h", "t", "m">>,
         File("note", <<[a |-> "href", v |-> <<".", ".", "/", "H", "o", "m", "e", ".", "h", "t", "m", "l">>], [a |-> "src", v |-> <<".", ".", "/", "p", "h", "o", "t", "o", ".", "h", "e", "i", "c">>]>>, 5)>>,
       <<<<"i", "n", "d", "e", "x", ".", "h", "t", "m", "l">>,
         File("index", <<[a |-> "href", v |-> <<"H", "o", "m", "e", ".", "h", "t", "m", "l">>]>>, 20)>>,
       <<<<"S", "u", "b", " ", ".", "h", "t", "m", "l">>,
         File("sub2", <<>>, 4)>> >>

\* what an existing output directory holds before it is overwritten
OldTree == ExtractAll(EmptyTree, <<>>, << <<<<"o", "l", "d", ".", "h", "t", "m", "l">>,
         File("old", <<>>, 3)>> >>)

MaxEntries == 3

\* the members with index in S, in order
RECURSIVE Pick(_, _)
Pick(seq, S) ==
    IF Len(seq) = 0 THEN <<>>
    ELSE (IF Len(seq) \in S THEN Pick(Slice(seq, 1, Len(seq) - 1), S) \o <<seq[Len(seq)]>>
          ELSE Pick(Slice(seq, 1, Len(seq) - 1), S))

Archives ==
    {[state |-> s, entries |-> <<>>] : s \in {"missing", "notzip", "badzip"}}
    \cup {[state |-> "ok", entries |-> Pick(Members, S)] :
            S \in {X \in SUBSET (1..Len(Members)) : Cardinality(X) <= MaxEntries}}

\* the theme run's variables before they are first assigned
TFresh ==
    /\ t_html_files = <<>>
    /\ backup_dir = None
    /\ subpage_mapping = [q \in {} |-> 0]
    /\ p_i = 1
    /\ processed_count = 0
    /\ t_failed_count = 0
    /\ t_success = "none"
    /\ t_ret = -1
    /\ project_dir = None
    /\ asset_walk = <<>>

\* no layout converter is called on its own
LayIdle ==
    /\ lay_pc = "idle"
    /\ lay_kind = "table"
    /\ lay_content = <<>>
    /\ converted = <<>>

CfIdle ==
    /\ cf_pc = "idle"
    /\ filename = <<>>
    /\ cleaned = <<>>
    /\ LayIdle

\* the run's variables before they are first assigned
XFresh ==
    /\ html_files = <<>>
    /\ main_html = None
    /\ heic_files = <<>>
    /\ h_i = 1
    /\ converted_count = 0
    /\ failed_count = 0
    /\ conversions = <<>>
    /\ succeeded = {}
    /\ update_calls = <<>>
    /\ heic_ret = 0
    /\ all_files = {}
    /\ moves_made = {}
    /\ filename_mapping = [q \in {} |-> 0]
    /\ cleaned_count = 0
    /\ f_i = 1
    /\ fixed_count = 0
    /\ caller = "process"
    /\ success = "none"
    /\ ret = -1
    /\ raised = FALSE
    /\ frames = <<>>

\* the theme applicator is not run
TIdle ==
    /\ t_pc = "idle"
    /\ t_mode = "given"
    /\ directory_path = <<>>
    /\ create_project_structure = TRUE
    /\ dir_exists = FALSE
    /\ create_backups = TRUE
    /\ original_tree = EmptyTree
    /\ t_tree = EmptyTree
    /\ TFresh

XIdle ==
    /\ x_pc = "idle"
    /\ mode = "archive"
    /\ cleanup_zips = TRUE
    /\ archive = [state |-> "missing", entries |-> <<>>]
    /\ outdir_exists = FALSE
    /\ tree = EmptyTree
    /\ XFresh

InitRun ==
    /\ CfIdle
    /\ x_pc = "run"
    /\ mode \in {"archive", "reprocess", "gui"}
    /\ cleanup_zips \in BOOLEAN
    /\ archive \in Archives
    /\ outdir_exists \in BOOLEAN
    /\ mode = "reprocess" => archive.state \in {"missing", "ok"} /\ ~outdir_exists
    /\ tree = IF mode = "reprocess"
              THEN ExtractAll(EmptyTree, <<>>, archive.entries)
              ELSE IF outdir_exists THEN OldTree ELSE EmptyTree
    /\ XFresh
    /\ TIdle

NextRun ==
    \/ RunStart
    \/ ProcessArchiveStart
    \/ ExtractArchive
    \/ FindHtml
    \/ CleanupZips
    \/ ReprocessStart
    \/ ConvertStart
    \/ ConvertOne
    \/ ConvertFinish
    \/ CleanStart
    \/ CleanOne
    \/ CleanFinish
    \/ FindMain
    \/ FixOne
    \/ Finish
    \/ RunReturn

SpecRun == InitRun /\ [][NextRun]_vars

(***************************************************************************)
(* find_main_html_file on its own: any list of files, any sizes            *)
(***************************************************************************)
MainMembers ==
    << <<<<"a", ".", "h", "t", "m", "l">>,
         File("a", <<>>, 5)>>,
       <<<<"b", ".", "h", "t", "m", "l">>,
         File("b", <<>>, 5)>>,
       <<<<"c", ".", "h", "t", "m">>,
         File("c", <<>>, 9)>>,
       <<<<"d", "/", "e", ".", "h", "t", "m", "l">>,
         File("e", <<>>, 12)>>,
       <<<<"d", "/", "f", ".", "h", "t", "m">>,
         File("f", <<>>, 12)>>,
       <<<<"g", "/", "h", "/", "i", ".", "h", "t", "m", "l">>,
         File("i", <<>>, 7)>> >>

MaxFiles == 3

\* the lists of at most MaxFiles different paths of the members
FileLists ==
    {l \in UNION {[1..n -> {MainMembers[i][1] : i \in 1..Len(MainMembers)}] : n \in 0..MaxFiles} :
        \A i, j \in 1..Len(l) : i # j => l[i] # l[j]}

InitMain ==
    /\ CfIdle
    /\ TIdle
    /\ mode = "archive"
    /\ cleanup_zips = TRUE
    /\ archive = [state |-> "missing", entries |-> <<>>]
    /\ outdir_exists = FALSE
    /\ \E S \in SUBSET (1..Len(MainMembers)) :
          tree = ExtractAll(EmptyTree, <<>>, Pick(MainMembers, S))
    /\ x_pc = "main"
    /\ html_files \in FileLists
    /\ main_html = None
    /\ heic_files = <<>> /\ h_i = 1 /\ converted_count = 0 /\ failed_count = 0
    /\ conversions = <<>> /\ succeeded = {} /\ update_calls = <<>> /\ heic_ret = 0
    /\ all_files = {} /\ moves_made = {} /\ filename_mapping = [q \in {} |-> 0]
    /\ cleaned_count = 0 /\ f_i = 1 /\ fixed_count = 0
    /\ caller = "process" /\ success = "none" /\ ret = -1 /\ raised = FALSE
    /\ frames = <<>>

NextMain == FindMain

SpecMain == InitMain /\ [][NextMain]_vars

(***************************************************************************)
(* convert_all_heic_files on its own                                       *)
(***************************************************************************)
HeicMembers ==
    << <<<<"a", ".", "h", "e", "i", "c">>,
         File("a", <<>>, 3)>>,
       <<<<"a", ".", "h", "e", "i", "f">>,
         File("b", <<>>, 3)>>,
       <<<<"i", "m", "g", "/", "c", ".", "H", "E", "I", "C">>,
         File("c", <<>>, 3)>>,
       <<<<"P", "a", "g", "e", ".", "h", "t", "m", "l">>,
         File("page", <<[a |-> "src", v |-> <<"a", ".", "h", "e", "i", "c">>], [a |-> "href", v |-> <<"i", "m", "g", "/", "c", ".", "H", "E", "I", "C">>], [a |-> "src", v |-> <<"a", ".", "h", "e", "i", "f">>]>>, 4)>> >>

InitHeic ==
    /\ CfIdle
    /\ TIdle
    /\ mode = "archive"
    /\ cleanup_zips = TRUE
    /\ archive = [state |-> "missing", entries |-> <<>>]
    /\ outdir_exists = FALSE
    /\ \E S \in SUBSET (1..Len(HeicMembers)) :
          tree = ExtractAll(EmptyTree, <<>>, Pick(HeicMembers, S))
    /\ x_pc = "heic"
    /\ XFresh

NextHeic ==
    \/ ConvertStart
    \/ ConvertOne
    \/ ConvertFinish

SpecHeic == InitHeic /\ [][NextHeic]_vars

(***************************************************************************)
(* The directories the theme applicator is run on                          *)
(***************************************************************************)
ThemeMembers ==
    << <<<<"P", "a", "g", "e", " ", "0", "1", "2", "3", "4", "5", "6", "7", "8", "9", "a", "b", "c", "d", "e", "f", "0", "1", "2", "3", "4", "5", "6", "7", "8", "9", "a", "b", "c", "d", "e", "f", ".", "h", "t", "m", "l">>,
         File("a", <<[a |-> "href", v |-> <<"P", "a", "g", "e", ".", "h", "t", "m", "l">>], [a |-> "src", v |-> <<"i", "m", "g", "/", "p", "i", "c", ".", "p", "n", "g">>], [a |-> "href", v |-> <<"P", "r", "i", "v", "a", "t", "e", "/", "D", "e", "e", "p", "%", "2", "0", "0", "1", "2", "3", "4", "5", "6", "7", "8", "9", "a", "b", "c", "d", "e", "f", "0", "1", "2", "3", "4", "5", "6", "7", "8", "9", "a", "b", "c", "d", "e", "f", ".", "h", "t", "m", "l">>]>>, 1)>>,
       <<<<"P", "a", "g", "e", ".", "h", "t", "m", "l">>,
         File("b", <<[a |-> "href", v |-> <<"P", "a", "g", "e", "%", "2", "0", "0", "1", "2", "3", "4", "5", "6", "7", "8", "9", "a", "b", "c", "d", "e", "f", "0", "1", "2", "3", "4", "5", "6", "7", "8", "9", "a", "b", "c", "d", "e", "f", ".", "h", "t", "m", "l">>]>>, 1)>>,
       <<<<"Z", "e", "d", " ", "0", "1", "2", "3", "4", "5", "6", "7", "8", "9", "a", "b", "c", "d", "e", "f", "0", "1", "2", "3", "4", "5", "6", "7", "8", "9", "a", "b", "c", "d", "e", "f", ".", "h", "t", "m", "l">>,
         File("z", <<[a |-> "href", v |-> <<"P", "a", "g", "e", "%", "2", "0", "0", "1", "2", "3", "4", "5", "6", "7", "8", "9", "a", "b", "c", "d", "e", "f", "0", "1", "2", "3", "4", "5", "6", "7", "8", "9", "a", "b", "c", "d", "e", "f", ".", "h", "t", "m", "l">>], [a |-> "src", v |-> <<"p", "i", "c", ".", "h", "e", "i", "c">>], [a |-> "href", v |-> <<"h", "t", "t", "p", "s", ":", "/", "/", "e", "x", "a", "m", "p", "l", "e", ".", "c", "o", "m", "/", "x", ".", "h", "t", "m", "l">>]>>, 1)>>,
       <<<<"i", "n", "d", "e", "x", " ", "0", "1", "2", "3", "4", "5", "6", "7", "8", "9", "a", "b", "c", "d", "e", "f", "0", "1", "2", "3", "4", "5", "6", "7", "8", "9", "a", "b", "c", "d", "e", "f", ".", "h", "t", "m", "l">>,
         File("x", <<>>, 1)>>,
       <<<<"i", "n", "d", "e", "x", ".", "h", "t", "m", "l">>,
         File("idx", <<[a |-> "href", v |-> <<"P", "a", "g", "e", "%", "2", "0", "0", "1", "2", "3", "4", "5", "6", "7", "8", "9", "a", "b", "c", "d", "e", "f", "0", "1", "2", "3", "4", "5", "6", "7", "8", "9", "a", "b", "c", "d", "e", "f", ".", "h", "t", "m", "l">>]>>, 3)>>,
       <<<<"P", "r", "i", "v", "a", "t", "e", "/", "D", "e", "e", "p", " ", "0", "1", "2", "3", "4", "5", "6", "7", "8", "9", "a", "b", "c", "d", "e", "f", "0", "1", "2", "3", "4", "5", "6", "7", "8", "9", "a", "b", "c", "d", "e", "f", ".", "h", "t", "m", "l">>,
         File("d", <<[a |-> "href", v |-> <<".", ".", "/", "P", "a", "g", "e", "%", "2", "0", "0", "1", "2", "3", "4", "5", "6", "7", "8", "9", "a", "b", "c", "d", "e", "f", "0", "1", "2", "3", "4", "5", "6", "7", "8", "9", "a", "b", "c", "d", "e", "f", ".", "h", "t", "m", "l">>], [a |-> "src", v |-> <<".", ".", "/", "i", "m", "g", "/", "p", "i", "c", ".", "p", "n", "g">>], [a |-> "src", v |-> <<"p", "i", "c", ".", "p", "n", "g">>]>>, 1)>>,
       <<<<"i", "m", "g", "/", "p", "i", "c", ".", "p", "n", "g">>,
         File("pic", <<>>, 3)>>,
       <<<<"_", "o", "r", "i", "g", "i", "n", "a", "l", "_", "b", "a", "c", "k", "u", "p", "s", "/", "O", "l", "d", ".", "h", "t", "m", "l">>,
         File("old", <<[a |-> "href", v |-> <<".", ".", "/", "Z", "e", "d", "_", "0", "1", "2", "3", "4", "5", "6", "7", "8", "9", "a", "b", "c", "d", "e", "f", "0", "1", "2", "3", "4", "5", "6", "7", "8", "9", "a", "b", "c", "d", "e", "f", ".", "h", "t", "m", "l">>]>>, 3)>> >>

MaxPages == 3

ThemeTrees ==
    {ExtractAll(EmptyTree, <<>>, Pick(ThemeMembers, S)) :
        S \in {X \in SUBSET (1..Len(ThemeMembers)) : Cardinality(X) <= MaxPages}}

InitTheme ==
    /\ CfIdle
    /\ XIdle
    /\ t_pc = "run"
    /\ t_mode \in {"given", "gui"}
    /\ directory_path = <<>>
    /\ create_project_structure = FALSE
    /\ dir_exists \in BOOLEAN
    /\ create_backups \in BOOLEAN
    /\ original_tree \in ThemeTrees
    /\ ~dir_exists => original_tree = EmptyTree
    /\ t_tree = original_tree
    /\ TFresh

NextTheme ==
    \/ ThemeRunStart
    \/ ProcessDirectoryStart
    \/ CreateBackupDir
    \/ CreateSubpageMapping
    \/ ProcessFile
    \/ ProcessDirectoryEnd
    \/ ThemeRunReturn

SpecTheme == InitTheme /\ [][NextTheme]_vars

(***************************************************************************)
(* extract_archive on its own: ZIP files nested one in the other           *)
(***************************************************************************)
MaxDepth == 7

\* a ZIP file z.zip that holds a page and, up to depth n, the next z.zip
RECURSIVE Chain(_, _)
Chain(k, n) ==
    IF k > n THEN <<>>
    ELSE << <<<<"z", ".", "z", "i", "p">>,
              [id |-> <<"z">> \o IntToText(k), refs |-> <<>>, pad |-> 0, ok |-> TRUE,
               entries |-> << <<<<"n", ".", "h", "t", "m", "l">>,
                                [File("n", <<>>, 2) EXCEPT !.id = <<"n">> \o IntToText(k)]>> >>
                              \o Chain(k + 1, n)]>> >>

\* what else the archive can hold: a directory named as z.zip extracts to, a
\* corrupt ZIP file, a page, a ZIP file in a directory
ExtractMembers ==
    << <<<<"z", "/", "N", "o", "t", "e", ".", "h", "t", "m", "l">>, File("note", <<>>, 4)>>,
       <<<<"b", "a", "d", ".", "z", "i", "p">>, Zip("bad", <<>>, FALSE)>>,
       <<<<"H", "o", "m", "e", ".", "h", "t", "m", "l">>, File("home", <<>>, 6)>>,
       <<<<"i", "m", "g", "/", "w", ".", "z", "i", "p">>,
         Zip("w", << <<<<"W", ".", "h", "t", "m", "l">>, File("wpage", <<>>, 1)>> >>, TRUE)>> >>

InitExtract ==
    /\ CfIdle
    /\ TIdle
    /\ XFresh
    /\ x_pc = "extract_top"
    /\ mode = "archive"
    /\ cleanup_zips \in BOOLEAN
    /\ outdir_exists = FALSE
    /\ tree = EmptyTree
    /\ \E n \in 0..MaxDepth, S \in SUBSET (1..Len(ExtractMembers)) :
          archive = [state |-> "ok", entries |-> Pick(ExtractMembers, S) \o Chain(1, n)]

NextExtract ==
    \/ ExtractTop
    \/ NestedTurn
    \/ NestedReturn

SpecExtract == InitExtract /\ [][NextExtract]_vars

(***************************************************************************)
(* The directories the theme applicator makes a project of                 *)
(***************************************************************************)
ProjectMembers ==
    << <<<<"H", "o", "m", "e", ".", "h", "t", "m", "l">>,
         File("h", <<[a |-> "src", v |-> <<"i", "m", "g", "/", "p", ".", "p", "n", "g">>],
                     [a |-> "href", v |-> <<"s", "u", "b", "/", "N", "o", "t", "e", ".", "h", "t", "m", "l">>]>>, 1)>>,
       <<<<"s", "u", "b", "/", "N", "o", "t", "e", ".", "h", "t", "m", "l">>, File("n", <<[a |-> "src", v |-> <<".", ".", "/", "i", "m", "g", "/", "p", ".", "p", "n", "g">>]>>, 1)>>,
       <<<<"i", "m", "g", "/", "p", ".", "p", "n", "g">>, File("p", <<>>, 2)>>,
       <<<<"s", ".", "c", "s", "s">>, File("s", <<>>, 1)>>,
       <<<<"i", "n", "d", "e", "x", ".", "h", "t", "m", "l">>, File("i", <<>>, 1)>> >>

\* what an earlier run left in the project directory
OldProject == << <<<<"O", "l", "d", ".", "h", "t", "m", "l">>, File("o", <<>>, 1)>> >>

ProjectDirectories == {<<>>, <<"s", "i", "t", "e">>}

project_tree(directory, S, old) ==
    LET T == ExtractAll(EmptyTree, directory, Pick(ProjectMembers, S))
        U == [fs |-> T.fs,
              dirs |-> T.dirs \cup (IF Len(directory) = 0 THEN {} ELSE {directory})]
    IN  IF old THEN ExtractAll(U, project_dir_of(directory), OldProject) ELSE U

InitProject ==
    /\ CfIdle
    /\ XIdle
    /\ t_pc = "run"
    /\ t_mode \in {"given", "gui"}
    /\ directory_path \in ProjectDirectories
    /\ create_project_structure = TRUE
    /\ create_backups = TRUE
    /\ dir_exists \in BOOLEAN
    /\ ~dir_exists => Len(directory_path) > 0
    /\ original_tree \in
          IF dir_exists
          THEN {project_tree(directory_path, S, old) :
                   S \in SUBSET (1..Len(ProjectMembers)), old \in BOOLEAN}
          ELSE {EmptyTree}
    /\ t_tree = original_tree
    /\ TFresh

NextProject ==
    \/ ThemeRunStart
    \/ ProcessDirectoryStart
    \/ CreateProjectStructure
    \/ ProjectMapping
    \/ ProjectFile
    \/ CopyAssetsStart
    \/ CopyAssetsDir
    \/ CopyAssetsLeave
    \/ ThemeRunReturn

SpecProject == InitProject /\ [][NextProject]_vars
(***************************************************************************)
(* Driver of clean_filename: the argument is any text of at most           *)
(* MaxTokens tokens                                                        *)
(***************************************************************************)
MaxTokens == 3

CfTokens ==
    << <<"x">>, <<" ">>, <<".">>, <<"-">>, <<"/">>, <<"<">>, <<"J">>,
       Uuid, DashedUuid, LongText, TxtExportBlock, <<"S", "h", "a", "r", "e", "d">> >>

RECURSIVE CfWords(_)
CfWords(n) ==
    IF n = 0 THEN {<<>>}
    ELSE LET W == CfWords(n - 1)
         IN  W \cup {w \o CfTokens[i] : w \in W, i \in 1..Len(CfTokens)}

InitClean ==
    /\ cf_pc = "input"
    /\ filename \in CfWords(MaxTokens)
    /\ cleaned = <<>>
    /\ LayIdle
    /\ XIdle
    /\ TIdle

CleanFilename ==
    /\ cf_pc = "input"
    /\ cleaned' = clean_filename(filename)
    /\ cf_pc' = "done"
    /\ UNCHANGED <<filename, lay_vars, x_vars, t_vars>>

NextClean == CleanFilename


SpecClean == InitClean /\ [][NextClean]_vars

(***************************************************************************)
(* Driver of create_subpage_mapping: the argument is any list of at most   *)
(* MaxNames different files                                                *)
(***************************************************************************)
MaxNames == 3

MappingFiles ==
    {<<"A", ".", "h", "t", "m", "l">>, <<"A", " ", "1", ".", "h", "t", "m", "l">>, <<"A", " ", "2", ".", "h", "t", "m", "l">>, <<"A", " ", " ", "1", ".", "h", "t", "m">>, <<"A", "!", ".", "h", "t", "m", "l">>, <<"s", "u", "b", "/", "A", ".", "h", "t", "m", "l">>,
     <<"A", " ">> \o Uuid \o <<".", "h", "t", "m", "l">>, <<"A", " ", "1", " ">> \o Uuid \o <<".", "h", "t", "m", "l">>,
     <<"!", "!", ".", "h", "t", "m", "l">>, <<"s", "u", "b", "p", "a", "g", "e", ".", "h", "t", "m", "l">>, <<"s", "u", "b", "/", "s", "u", "b", "p", "a", "g", "e", " ", "1", ".", "h", "t", "m", "l">>}

\* the lists of n different files
RECURSIVE ListsOf(_, _)
ListsOf(S, n) ==
    IF n = 0 THEN {<<>>}
    ELSE {Append(l, f) : l \in ListsOf(S, n - 1), f \in S} 

DistinctLists(S, n) ==
    {l \in UNION {ListsOf(S, k) : k \in 0..n} :
        \A i, j \in 1..Len(l) : i # j => l[i] # l[j]}

InitMapping ==
    /\ CfIdle
    /\ XIdle
    /\ t_pc = "mapping"
    /\ t_mode = "given"
    /\ directory_path = <<>>
    /\ create_project_structure \in BOOLEAN
    /\ dir_exists = TRUE
    /\ create_backups = TRUE
    /\ original_tree = EmptyTree
    /\ t_tree = EmptyTree
    /\ t_html_files \in DistinctLists(MappingFiles, MaxNames)
    /\ backup_dir = None
    /\ subpage_mapping = [q \in {} |-> 0]
    /\ p_i = 1
    /\ processed_count = 0
    /\ t_failed_count = 0
    /\ t_success = "none"
    /\ t_ret = -1
    /\ project_dir = None
    /\ asset_walk = <<>>

\* a call of create_subpage_mapping(html_files, project_dir)
MappingCall ==
    /\ t_pc = "mapping"
    /\ subpage_mapping' = create_subpage_mapping(t_html_files)
    /\ t_pc' = "mapped"
    /\ UNCHANGED <<cf_vars, lay_vars, x_vars, pr_vars, t_in_vars, t_tree, t_html_files, backup_dir,
                   p_i, processed_count, t_failed_count, t_success, t_ret>>

NextMapping == MappingCall

SpecMapping == InitMapping /\ [][NextMapping]_vars
(***************************************************************************)
(* The directories clean_and_move_files is called on                       *)
(***************************************************************************)
MoveMembers ==
    << <<<<"S", "u", "b", " ">> \o Uuid \o <<".", "h", "t", "m", "l">>, File("a", <<>>, 1)>>,
       <<<<"S", "u", "b", " ", ".", "h", "t", "m", "l">>, File("b", <<>>, 2)>>,
       <<<<"S", "u", "b", " ", "_", "1", ".", "h", "t", "m", "l">>, File("c", <<>>, 3)>>,
       <<<<"d", "o", "c", "s", "/", "N", "o", "t", "e", ".", "h", "t", "m">>, File("d", <<>>, 4)>>,
       <<<<"d", "o", "c", "s", "/", "N", "o", "t", "e", ".", "h", "t", "m", "l">>, File("e", <<>>, 5)>>,
       <<<<"P", "i", "c", "s", " ">> \o Uuid \o <<"/", "x", ".", "p", "n", "g">>, File("f", <<>>, 6)>>,
       <<<<"P", "i", "c", "s", " ">> \o Uuid, File("g", <<>>, 7)>>,
       <<<<"P", "i", "c", "s">>, File("h", <<>>, 8)>>,
       <<<<"d", "o", "c", "s", " ">> \o Uuid \o <<"/", "N", "o", "t", "e", ".", "h", "t", "m", "l">>, File("i", <<>>, 9)>> >>

MaxMoved == 4

\* a file and a directory cannot have the same path
IsTree(entries) ==
    \A i, j \in 1..Len(entries) : ~IsUnder(entries[i][1], entries[j][1]) \/ Len(entries[j][1]) = 0

InitCleanMove ==
    /\ CfIdle
    /\ TIdle
    /\ XFresh
    /\ x_pc = "clean"
    /\ mode = "reprocess"
    /\ cleanup_zips = TRUE
    /\ outdir_exists = FALSE
    /\ archive \in {[state |-> "ok", entries |-> Pick(MoveMembers, S)] :
                      S \in {X \in SUBSET (1..Len(MoveMembers)) :
                               /\ Cardinality(X) <= MaxMoved
                               /\ IsTree(Pick(MoveMembers, X))}}
    /\ tree = ExtractAll(EmptyTree, <<>>, archive.entries)

NextCleanMove ==
    \/ CleanStart
    \/ CleanOne
    \/ CleanFinish

SpecCleanMove == InitCleanMove /\ [][NextCleanMove]_vars
(***************************************************************************)
(* Driver of the layout converters: the content is a layout of at most     *)
(* MaxElements elements, each holding an image, text or nothing            *)
(***************************************************************************)
MaxElements == 4

Converters == {"table", "flex", "percentage", "float"}

ElementKinds == {"img", "text", "none"}

\* an element of a layout of each kind, holding what
element(converter, what) ==
    LET held == IF what = "none" THEN <<>> ELSE <<Leaf(what)>>
    IN  CASE converter = "table" -> <<Open("td", "none", <<>>)>> \o held \o <<Close("td")>>
          [] converter = "flex" -> <<Open("div", "none", <<>>)>> \o held \o <<Close("div")>>
          [] converter = "percentage" ->
                <<Open("div", "width", <<>>)>> \o held \o <<Close("div")>>
          [] converter = "float" -> <<Open("div", "float", <<>>)>> \o held \o <<Close("div")>>

RECURSIVE elements_of(_, _)
elements_of(converter, whats) ==
    IF Len(whats) = 0 THEN <<>>
    ELSE element(converter, whats[1]) \o elements_of(converter, Tail(whats))

\* a table with one row, a flex container, or elements that follow each
\* other
layout_of(converter, whats) ==
    CASE converter = "table" ->
            <<Open("table", "none", <<>>), Open("tr", "none", <<>>)>>
               \o elements_of(converter, whats) \o <<Close("tr"), Close("table")>>
      [] converter = "flex" ->
            <<Open("div", "flex", <<>>)>> \o elements_of(converter, whats)
               \o <<Close("div")>>
      [] OTHER -> elements_of(converter, whats)

InitLayout ==
    /\ cf_pc = "idle"
    /\ filename = <<>>
    /\ cleaned = <<>>
    /\ XIdle
    /\ TIdle
    /\ lay_pc = "input"
    /\ lay_kind \in Converters
    /\ lay_content \in {layout_of(lay_kind, whats) :
                      whats \in UNION {ListsOf(ElementKinds, n) : n \in 0..MaxElements}}
    /\ converted = <<>>

NextLayout == ConvertLayout

SpecLayout == InitLayout /\ [][NextLayout]_vars
(***************************************************************************)
(* Properties of clean_filename                                            *)
(***************************************************************************)
\* C8: clean_filename returns a non-empty text with no empty component and
\* no leading or trailing "/", in which every component's stem has at most
\* 50 characters and no component holds one of < > : " | ? *
C8_CleanFilenameShape ==
    cf_pc = "done" =>
        /\ Len(cleaned) > 0
        /\ cleaned[1] # "/" /\ cleaned[Len(cleaned)] # "/"
        /\ \A i \in 1..Len(Split(cleaned, "/")) :
              LET comp == Split(cleaned, "/")[i]
              IN  /\ Len(comp) > 0
                  /\ Len(Stem(PartName(comp))) <= MaxStemLen
                  /\ Range(comp) \cap SpecialChars = {}
(***************************************************************************)
(* Properties of the extractor's run                                       *)
(***************************************************************************)
TxtDotHtml == <<".", "h", "t", "m", "l">>

\* the run was given an archive and process_archive returned True
ProcessedOk == x_pc = "done" /\ mode # "reprocess" /\ success = "True"

\* the identities of the ZIP files nested in the entries of an archive
RECURSIVE nested_zips(_)
nested_zips(entries) ==
    IF Len(entries) = 0 THEN {}
    ELSE (IF EndsWith(Lower(entries[1][1]), TxtZip)
          THEN {entries[1][2].id} \cup nested_zips(entries[1][2].entries)
          ELSE {})
         \cup nested_zips(Tail(entries))

\* C1: with cleanup_zips = False (--keep-zips), every ZIP file nested in the
\* archive is still in the output directory after process_archive returned True
C1_KeepZipsKeepsNested ==
    (ProcessedOk /\ ~cleanup_zips) =>
        \A z \in nested_zips(archive.entries) :
            \E p \in DOMAIN tree.fs : tree.fs[p].id = z

\* C4: after process_archive, an href to a notion.so URL holding the id (plain
\* or dashed) of an exported page whose extracted file name carries that id
\* is the relative path from the linking file to that page's file
C4_NotionLinksRewritten ==
    ProcessedOk =>
        \A i, j \in 1..Len(archive.entries) :
            LET page == archive.entries[i]
                target == archive.entries[j]
            IN  \A k \in 1..Len(page[2].refs) :
                   LET r == page[2].refs[k]
                   IN  ( /\ r.a = "href"
                         /\ Contains(r.v, TxtNotion)
                         /\ Contains(r.v, Uuid) \/ Contains(r.v, DashedUuid)
                         /\ EndsWith(target[1], TxtDotHtml)
                         /\ Contains(target[1], Uuid) ) =>
                       \A p, q \in DOMAIN tree.fs :
                          (tree.fs[p].id = page[2].id /\ tree.fs[q].id = target[2].id) =>
                              tree.fs[p].refs[k].v = RelPath(q, Parent(p))

HasHtml ==
    \E i \in 1..Len(archive.entries) :
        Suffix(PartName(archive.entries[i][1])) \in HtmlSuffixes

\* C10: reprocess_extracted_directory returns True for every existing
\* directory with an HTML file and False only for a missing directory or one
\* without HTML, and every file it hands to find_main_html_file and
\* fix_internal_links exists at that moment
C10_Reprocess ==
    mode = "reprocess" =>
        /\ x_pc = "done" =>
              /\ (archive.state = "ok" /\ HasHtml) => success = "True"
              /\ ~(archive.state = "ok" /\ HasHtml) => success = "False"
        /\ x_pc \in {"main", "fix"} =>
              \A i \in 1..Len(html_files) : html_files[i] \in DOMAIN tree.fs

(***************************************************************************)
(* Properties of find_main_html_file and convert_all_heic_files            *)
(***************************************************************************)
\* find_main_html_file has returned
MainReturned == x_pc \in {"fix", "finish"}

\* f is among candidates and none of them is larger
LargestOf(f, candidates) ==
    /\ f \in candidates
    /\ \A g \in candidates : st_size(tree.fs[g]) <= st_size(tree.fs[f])

\* C6: find_main_html_file returns None iff html_files is empty; else a
\* largest file among those directly in output_dir when there is one, a
\* largest of all html_files when there is none; always a member of html_files
C6_MainFile ==
    MainReturned =>
        LET all == Range(html_files)
            root == {f \in all : ~Contains(f, <<"/">>)}
        IN  /\ main_html = None <=> html_files = <<>>
            /\ main_html # None =>
                  /\ main_html \in all
                  /\ root # {} => LargestOf(main_html, root)
                  /\ root = {} => LargestOf(main_html, all)

\* C6: a file below the root was chosen although the first listed is smaller
\* than it, and a root file although a larger file lies deeper
C6_Witness ==
    /\ MainReturned
    /\ Len(html_files) >= 2
    /\ main_html # None
    /\ main_html # html_files[1]
    /\ \E g \in Range(html_files) \cap DOMAIN tree.fs :
          st_size(tree.fs[g]) > st_size(tree.fs[main_html])

\* the (heic, png) pairs of the files in S
PairsOf(S) == {<<f, WithSuffix(f, TxtPng)>> : f \in S}

\* C7: an original is deleted only after its conversion succeeded, a file whose
\* conversion failed stays, the return value is the number of successes, and
\* update_heic_references_in_html is called iff there was a success, with
\* exactly the pairs that succeeded
C7_HeicConversion ==
    x_pc \in {"heic_loop", "clean"} =>
        /\ \A i \in 1..Len(heic_files) :
              LET f == heic_files[i]
              IN  /\ f \notin DOMAIN tree.fs =>
                        /\ f \in succeeded
                        /\ WithSuffix(f, TxtPng) \in DOMAIN tree.fs
                  /\ (i < h_i /\ f \notin succeeded) => f \in DOMAIN tree.fs
        /\ x_pc = "clean" =>
              /\ heic_ret = Cardinality(succeeded)
              /\ succeeded = {} => update_calls = <<>>
              /\ succeeded # {} =>
                    /\ Len(update_calls) = 1
                    /\ Range(update_calls[1]) = PairsOf(succeeded)
                    /\ Len(update_calls[1]) = Cardinality(succeeded)

\* C7: a run in which one conversion succeeded and another failed has ended
C7_Witness ==
    /\ x_pc = "clean"
    /\ Len(heic_files) >= 2
    /\ succeeded # {}
    /\ \E i \in 1..Len(heic_files) :
          heic_files[i] \notin succeeded /\ heic_files[i] \in DOMAIN tree.fs
    /\ \E f \in succeeded : f \notin DOMAIN tree.fs
    /\ Len(update_calls) = 1

(***************************************************************************)
(* Properties of the theme applicator's in-place run                       *)
(***************************************************************************)
\* C2: with backups enabled and a backup directory created, _original_backups
\* holds, for every file process_directory has processed, the content the
\* file had before the run modified any file, whatever the order of the files
C2_BackupsHoldOriginals ==
    (t_pc \in {"loop", "return", "done"} /\ create_backups /\ backup_dir # None) =>
        \A i \in 1..(p_i - 1) :
            LET f == t_html_files[i]
                copy == PathJoin(TxtBackups, f)
            IN  /\ copy \in DOMAIN t_tree.fs
                /\ t_tree.fs[copy] = original_tree.fs[f]

\* C3: after every file was processed successfully, each href ending in .html
\* of a processed page that referred to another processed page is that page's
\* new file name of subpage_mapping, whatever the order of processing
C3_LinksFollowRenames ==
    (t_pc = "done" /\ t_success = "True" /\ t_failed_count = 0) =>
        \A f, g \in Range(t_html_files) :
            \A k \in 1..Len(original_tree.fs[f].refs) :
                LET r == original_tree.fs[f].refs[k]
                IN  ( /\ f # g
                      /\ r.a = "href"
                      /\ EndsWith(r.v, <<".", "h", "t", "m", "l">>)
                      /\ resolve(original_tree, Parent(f), Unquote(r.v)) = g ) =>
                    \A p \in DOMAIN t_tree.fs :
                        t_tree.fs[p].id = <<"themed">> \o original_tree.fs[f].id =>
                            t_tree.fs[p].refs[Len(TemplateNav) + k].v
                                = subpage_mapping[g].target_filename

\* C5: find_html_files leaves out every file named index.html or index.htm in
\* any case, and after the run every index file the directory held is still
\* there with the content it had
C5_IndexPagesUntouched ==
    /\ \A i \in 1..Len(t_html_files) : Lower(Name(t_html_files[i])) \notin IndexNames
    /\ t_pc = "done" =>
          \A p \in DOMAIN original_tree.fs :
              Lower(Name(p)) \in IndexNames =>
                  /\ p \in DOMAIN t_tree.fs
                  /\ t_tree.fs[p] = original_tree.fs[p]

(***************************************************************************)
(* Properties of extract_archive and extract_nested_archives               *)
(***************************************************************************)
\* the ZIP members of an archive, however deep: where each lies once the
\* ZIP files around it are extracted, how many levels below the archive
RECURSIVE zips_below(_, _, _)
zips_below(dir, entries, depth) ==
    UNION {IF EndsWith(entries[i][1], TxtZip)
           THEN {[zip_file |-> PathJoin(dir, entries[i][1]), depth |-> depth,
                  content |-> entries[i][2]]}
                \cup zips_below(extract_dir_of(PathJoin(dir, entries[i][1])),
                                entries[i][2].entries, depth + 1)
           ELSE {} : i \in 1..Len(entries)}

\* the members of z that are not ZIP files lie in its sibling directory
ExtractedBeside(z) ==
    /\ extract_dir_of(z.zip_file) \in tree.dirs
    /\ \A i \in 1..Len(z.content.entries) :
          LET e == z.content.entries[i]
              p == PathJoin(extract_dir_of(z.zip_file), e[1])
          IN  ~EndsWith(e[1], TxtZip) => (p \in DOMAIN tree.fs /\ tree.fs[p] = e[2])

\* extract_archive has returned
Extracted == x_pc = "extracted"

\* the call-by-call extraction ends with the tree extract_nested_archives
\* gives as a whole
NestedMatchesWhole ==
    Extracted =>
        tree = extract_nested_archives(ExtractAll(EmptyTree, <<>>, archive.entries),
                                       <<>>, 1, cleanup_zips)

\* extract_archive terminates: while calls are in progress a step can be
\* taken, and every step lowers NestedWork, a natural number
NestedWork(T, stack) ==
    LET zips == zips_below(<<>>, archive.entries, 1)
        closed == {z \in zips : extract_dir_of(z.zip_file) \notin T.dirs}
        listed == [i \in 1..Len(stack) |-> Len(stack[i].zip_files)]
        Sum[i \in 0..Len(stack)] == IF i = 0 THEN 0 ELSE Sum[i - 1] + listed[i]
    IN  2 * (Cardinality(zips) + 2) * Cardinality(closed) + 2 * Sum[Len(stack)] + Len(stack)

NestedProgress ==
    x_pc = "nested" =>
        /\ Len(frames) > 0
        /\ ~frames[Len(frames)].waiting
        /\ \A i \in 1..(Len(frames) - 1) :
              frames[i].waiting /\ Len(frames[i].zip_files) > 0

NestedWorkDecreases ==
    [][x_pc = "nested" =>
          \A T \in {tree'}, stack \in {frames'} :
              NestedWork(T, stack) < NestedWork(tree, frames)]_vars

\* extract_nested_archives is never called at a level above 5
NestedLevelBound == \A i \in 1..Len(frames) : frames[i].level \in 1..MaxNestLevel

\* one call is in progress at each of the levels 1 to 5
NestedLevelWitness == Len(frames) = MaxNestLevel /\ frames[MaxNestLevel].level = MaxNestLevel

\* C11: extract_nested_archives is never called at a level above 5; when
\* extract_archive has returned, every valid ZIP file at most 5 levels below
\* the archive is extracted into the sibling directory named by its stem, and
\* no ZIP file nested deeper is
C11_NestedExtraction ==
    /\ NestedLevelBound
    /\ Extracted =>
          \A z \in zips_below(<<>>, archive.entries, 1) :
              z.content.ok =>
                  /\ z.depth <= MaxNestLevel => ExtractedBeside(z)
                  /\ z.depth > MaxNestLevel => extract_dir_of(z.zip_file) \notin tree.dirs

(***************************************************************************)
(* Project-structure mode and the source directory                         *)
(***************************************************************************)
\* the files of tree T under the source directory
source_files(T) == {p \in DOMAIN T.fs : IsUnder(p, directory_path)}

\* the files the run has created or changed so far
touched_files ==
    {p \in DOMAIN t_tree.fs :
        p \notin DOMAIN original_tree.fs \/ t_tree.fs[p] # original_tree.fs[p]}

SourceUntouched ==
    /\ source_files(t_tree) = source_files(original_tree)
    /\ \A p \in source_files(t_tree) : t_tree.fs[p] = original_tree.fs[p]

WrittenUnderProject ==
    \A p \in touched_files : IsUnder(p, project_dir_of(directory_path))

\* C12: in project-structure mode process_directory creates, changes and
\* deletes no file under the source directory, and every page, image and
\* asset it writes lies under the sibling directory <name>_project
C12_SourceUntouched ==
    create_project_structure => SourceUntouched /\ WrittenUnderProject

\* the same for a source directory that has a name
NamedSourceUntouched ==
    (create_project_structure /\ Len(directory_path) > 0)
        => SourceUntouched /\ WrittenUnderProject

\* a run on a named directory has written pages, images and assets
NamedProjectWritten ==
    /\ Len(directory_path) > 0
    /\ t_pc = "done"
    /\ t_success = "True"
    /\ processed_count = 2
    /\ \E p \in touched_files : Lower(Suffix(Name(p))) \in AssetExtensions
(***************************************************************************)
(* Properties of create_subpage_mapping                                    *)
(***************************************************************************)
\* the clean names that the files of the list have before they are made
\* unique
stripped_names == {clean_name_of(t_html_files[i]) : i \in 1..Len(t_html_files)}

\* C13: create_subpage_mapping returns one entry for each file of the
\* list, the clean names are not empty and no two files have the same
\* clean name, nor the same output filename <clean name>.html
C13_DistinctCleanNames ==
    t_pc = "mapped" =>
        /\ DOMAIN subpage_mapping = Range(t_html_files)
        /\ \A f \in DOMAIN subpage_mapping :
              /\ Len(subpage_mapping[f].clean_name) > 0
              /\ subpage_mapping[f].target_filename
                    = subpage_mapping[f].clean_name \o <<".", "h", "t", "m", "l">>
        /\ \A f, g \in DOMAIN subpage_mapping :
              f # g => /\ subpage_mapping[f].clean_name # subpage_mapping[g].clean_name
                       /\ subpage_mapping[f].target_filename
                             # subpage_mapping[g].target_filename

\* three files whose stripped names are the same or an already numbered
\* name: "A 1.html", "A <id>.html" and "A.html"
C13_Witness ==
    /\ t_pc = "mapped"
    /\ Len(t_html_files) = 3
    /\ Cardinality(stripped_names) < 3
    /\ \E f, g \in DOMAIN subpage_mapping :
          /\ subpage_mapping[f].clean_name = <<"A", " ", "1">>
          /\ clean_name_of(f) = <<"A">>
          /\ clean_name_of(g) = <<"A", " ", "1">>
          /\ subpage_mapping[g].clean_name # <<"A", " ", "1">>
(***************************************************************************)
(* Properties of clean_and_move_files                                      *)
(***************************************************************************)
\* the directory as it was when clean_and_move_files was called
tree_before == ExtractAll(EmptyTree, <<>>, archive.entries)

\* where the file that was at path original is now; every file of the
\* directories tried has a content of its own
located(original) == {p \in DOMAIN tree.fs : tree.fs[p] = tree_before.fs[original]}

\* cleaned with the suffix _k before its extension, cleaned itself for k = 0
suffixed(cleaned_path_str, k) ==
    IF k = 0 THEN cleaned_path_str
    ELSE PathJoin(Parent(cleaned_path_str),
                  Stem(Name(cleaned_path_str)) \o <<"_">> \o IntToText(k)
                     \o Suffix(Name(cleaned_path_str)))

\* C14: whatever clean_and_move_files has moved so far, every file of the
\* directory is still there once, with its content, so the files are as
\* many as before; and a moved file lies at its cleaned path or at the
\* first free path made of it with a suffix _1, _2, ...
C14_NoFileOverwritten ==
    /\ Cardinality(DOMAIN tree.fs) = Cardinality(DOMAIN tree_before.fs)
    /\ \A original \in DOMAIN tree_before.fs : Cardinality(located(original)) = 1
    /\ \A m \in moves_made :
          \E k \in 0..Cardinality(DOMAIN tree_before.fs) :
             /\ located(m[1]) = {suffixed(m[2], k)}
             /\ \A j \in 0..(k - 1) : Exists(tree, suffixed(m[2], j))

\* the call has returned and a file was given a suffix, as its cleaned
\* path was that of another file
C14_Witness ==
    /\ x_pc = "main"
    /\ \E m \in moves_made :
          /\ m[2] \in DOMAIN tree.fs
          /\ located(m[1]) # {m[2]}
          /\ located(m[1]) # {m[1]}

\* the files that are not where they were
files_moved == {original \in DOMAIN tree_before.fs : located(original) # {original}}

\* C15: after clean_and_move_files the file that was at original lies at
\* cleaned for every entry original -> cleaned of filename_mapping, and
\* the number returned is the number of files moved
C15_MappingLocatesFiles ==
    x_pc = "main" =>
        /\ \A original \in DOMAIN filename_mapping :
              located(original) = {filename_mapping[original]}
        /\ cleaned_count = Cardinality(files_moved)

\* the number returned is the number of files moved
ReturnsFilesMoved == x_pc = "main" => cleaned_count = Cardinality(files_moved)
(***************************************************************************)
(* Properties of the layout converters                                     *)
(***************************************************************************)
\* the number of elements of the layout: the cells of the table, the
\* children of the flex container, the elements with a percentage width,
\* the floated elements
element_count ==
    Cardinality({j \in 1..Len(lay_content) :
        /\ lay_content[j].t = "open"
        /\ CASE lay_kind = "table" -> lay_content[j].tag = "td"
             [] lay_kind = "flex" -> lay_content[j].tag = "div" /\ lay_content[j].style = "none"
             [] lay_kind = "percentage" -> lay_content[j].style = "width"
             [] lay_kind = "float" -> lay_content[j].style = "float"})

\* the grid classes in what the converter returned
grid_classes ==
    {converted[j].class : j \in {k \in 1..Len(converted) :
                                    StartsWith(converted[k].class, <<"i", "m", "a", "g", "e", "-", "g", "r", "i", "d">>)}}

\* the class the claim gives n elements
class_for(n) ==
    IF n = 2 THEN <<"i", "m", "a", "g", "e", "-", "g", "r", "i", "d", " ", "t", "w", "o", "-", "c", "o", "l", "u", "m", "n">>
    ELSE IF n = 3 THEN <<"i", "m", "a", "g", "e", "-", "g", "r", "i", "d", " ", "t", "h", "r", "e", "e", "-", "c", "o", "l", "u", "m", "n">>
    ELSE IF n >= 4 THEN <<"i", "m", "a", "g", "e", "-", "g", "r", "i", "d", " ", "f", "o", "u", "r", "-", "c", "o", "l", "u", "m", "n">>
    ELSE <<"i", "m", "a", "g", "e", "-", "g", "r", "i", "d">>

\* C16: whichever of the four converters makes a grid of a layout, the
\* grid's class follows from the number n of the layout's elements:
\* two-column for 2, three-column for 3, four-column for 4 or more, and
\* plain image-grid for 1 or none
C16_GridClassByCount ==
    lay_pc = "done" => \A class \in grid_classes : class = class_for(element_count)

\* the same for the converters other than the flex converter
OtherGridClassByCount ==
    (lay_pc = "done" /\ lay_kind # "flex")
        => \A class \in grid_classes : class = class_for(element_count)

\* the flex converter gives every container the plain class
FlexAlwaysPlain ==
    (lay_pc = "done" /\ lay_kind = "flex") => grid_classes = {<<"i", "m", "a", "g", "e", "-", "g", "r", "i", "d">>}

\* a converter other than the flex converter has made a grid
GridsMade ==
    /\ lay_pc = "done"
    /\ lay_kind # "flex"
    /\ element_count >= 2
    /\ grid_classes # {}
====
